---- MODULE Spec2Model ----
(***************************************************************************)
(* Model of the invocation-caching-and-retry layer, the usage ledger and   *)
(* the three-phase orchestrator of the multi-agent research system.        *)
(*                                                                         *)
(* Conventions                                                             *)
(*  - Python None is the record None; Optional[int] is a set with at most  *)
(*    one element.                                                         *)
(*  - Time is counted in whole hours.  A timestamp is written to a cache   *)
(*    file in its ISO form (day, hour) and parsed back on every read.      *)
(*  - The md5 digest is taken to be collision free on the modelled keys:   *)
(*    the digest of a string is the string, tagged.                        *)
(*  - Each subsystem has its own specification (SpecCache, SpecRetry, ...) *)
(*    that moves only that subsystem's variables.                          *)
(***************************************************************************)
EXTENDS Integers, Sequences, FiniteSets, TLC

VARIABLES
    files,          \* cache directory: cache key -> document of the .json file
    now,            \* datetime.now(), in hours
    lastOp,         \* the last call of the Cache API and what it returned
    written,        \* history: key parts -> the last set made for them
    ENABLE_CACHING, \* Settings.ENABLE_CACHING of the running process
    MAX_RETRIES,    \* Settings.MAX_RETRIES of the running process
    PARALLEL_EXECUTION, \* Settings.PARALLEL_EXECUTION of the running process
    retryRes,       \* the last run of _call_api_with_retry: its inputs and outcome
    invRes,         \* the last run of invoke: its inputs and outcome
    usage_by_agent, \* TokenCounter.usage_by_agent: agent name -> TokenUsage
    total_usage,    \* TokenCounter.total_usage
    tracked,        \* history: the track calls made, in order
    tpc,            \* concurrent track: each thread's position in track
    ttmp,           \* concurrent track: the value each thread has loaded
    targs,          \* concurrent track: each thread's (input, output) tokens
    pc,             \* run_analysis: where the run is
    companies,      \* run_analysis: the companies asked for
    document_locations, \* run_analysis: what phase 1 returned
    analyses,       \* _phase_2_analyze_companies: the list built so far
    trace,          \* history: the phase steps of the run, in order
    report,         \* the report file written by _save_report, or None
    runs,           \* history: how many times the program has been started
    exit_code,      \* what main returned: {} while it runs, else {code}
    recovering      \* history: this run repeats, within the TTL, a run that failed in phase 3

cacheVars   == <<files, now, lastOp, written>>
cfgVars     == <<ENABLE_CACHING, MAX_RETRIES, PARALLEL_EXECUTION>>
invokerVars == <<retryRes, invRes>>
ledgerVars  == <<usage_by_agent, total_usage, tracked>>
threadVars  == <<tpc, ttmp, targs>>
pipeVars    == <<pc, companies, document_locations, analyses, trace, report, runs,
                 exit_code, recovering>>

vars == <<cacheVars, cfgVars, invokerVars, ledgerVars, threadVars, pipeVars>>

----------------------------------------------------------------------------
(* Bounds *)

MaxClock == 3       \* the clock stops advancing here
TtlHours == 2       \* ttl_hours the Cache is constructed with
MaxRetriesCfg == 3  \* largest configured attempt count
MaxInvokeRetries == 2   \* largest configured attempt count where invoke is driven
MaxTracks == 3      \* track calls in one run of the ledger
NThreads == 2       \* threads that call track at the same time
MaxCompanies == 2   \* longest list of companies a run is asked for
MaxRuns == 2        \* times the program is started on one cache directory

----------------------------------------------------------------------------
(* Settings *)

DEFAULT_MAX_RETRIES == 3
RETRY_DELAY == 2

\* MAX_RETRIES is int(os.getenv(...)): any integer, zero and negatives included.
RetryCfgs == {0 - 1} \cup (0..MaxRetriesCfg)

----------------------------------------------------------------------------
(* Values *)

NoOp == [op |-> "none"]

None == [isNone |-> TRUE]

EmptyMap == [x \in {} |-> 0]

Range(s) == {s[i] : i \in DOMAIN s}

DropAll(f, k) == EmptyMap
KeepKey(f, k) == f
RemoveKey(f, k) == [x \in (DOMAIN f) \ {k} |-> f[x]]

\* An invocation result as invoke stores it (base_agent.py:87-91).
Value(text, input_tokens, output_tokens) ==
    [text |-> text, input_tokens |-> input_tokens, output_tokens |-> output_tokens]

----------------------------------------------------------------------------
(* Cache: key derivation *)

KwNames == {"agent_name", "prompt", "context"}

\* Position of a keyword name in lexicographic order, the order sort_keys uses.
KeyRank(k) ==
    CASE k = "agent_name" -> 1
      [] k = "context"    -> 2
      [] k = "prompt"     -> 3

\* The orders in which a caller can write the three keyword arguments.
KwOrders == {o \in [1..3 -> KwNames] : \A i, j \in 1..3 : o[i] = o[j] => i = j}

\* The order in which invoke writes the keyword arguments (base_agent.py:66-70).
InvokeOrder == <<"agent_name", "prompt", "context">>

\* **kwargs as Python receives it: the pairs in the order they were supplied.
Kwargs(order, agent_name, prompt, context) ==
    [i \in 1..3 |->
        <<order[i],
          CASE order[i] = "agent_name" -> agent_name
            [] order[i] = "prompt"     -> prompt
            [] order[i] = "context"    -> context>>]

\* json.dumps(..., sort_keys=True) writes a dict's items sorted by key.
SortKeysUnsorted(kw) == kw
SortKeys(kw) ==
    [i \in 1..Len(kw) |->
        CHOOSE p \in Range(kw) :
            Cardinality({q \in Range(kw) : KeyRank(q[1]) < KeyRank(p[1])}) = i - 1]

JsonDumpsSorted(args, kwargs) == <<args, SortKeys(kwargs)>>

Md5HexDigest(s) == <<"md5", s>>

_get_cache_key(args, kwargs) == Md5HexDigest(JsonDumpsSorted(args, kwargs))

----------------------------------------------------------------------------
(* Cache: timestamps and expiry *)

IsoFormat(t) == <<t \div 24, t % 24>>

FromIsoFormat(s) == s[1] * 24 + s[2]

\* datetime.now() - cached_time > self.ttl
ExpiredInclusive(t, cached_time) == t - cached_time >= TtlHours
Expired(t, cached_time) == t - cached_time > TtlHours

----------------------------------------------------------------------------
(* Cache: get and set, as functions of the directory and the clock *)

\* A file whose content json.load cannot parse: what a write cut short leaves
\* behind.
Corrupted == [corrupt |-> TRUE]

\* A timestamp text that datetime.fromisoformat rejects, and the test for the
\* texts it accepts: those isoformat writes.
MalformedIso == <<"?">>
IsIsoText(s) == Len(s) = Len(IsoFormat(0))

\* The statements of the try block up to the expiry check raise: json.load
\* (JSONDecodeError), cache_data['timestamp'] (KeyError), fromisoformat
\* (ValueError).
UnparsableOrNoValue(cache_data) ==
    \/ cache_data = Corrupted
    \/ "timestamp" \notin DOMAIN cache_data
    \/ ~IsIsoText(cache_data.timestamp)
    \/ "value" \notin DOMAIN cache_data
Unparsable(cache_data) ==
    \/ cache_data = Corrupted
    \/ "timestamp" \notin DOMAIN cache_data
    \/ ~IsIsoText(cache_data.timestamp)

\* cache_data['value'] does not raise KeyError.
HasValue(cache_data) == "value" \in DOMAIN cache_data

CacheGet(fs, t, args, kwargs) ==
    LET cache_key == _get_cache_key(args, kwargs) IN
    IF cache_key \notin DOMAIN fs
    THEN [ret |-> None, files |-> fs]
    ELSE IF Unparsable(fs[cache_key])
    THEN [ret |-> None, files |-> fs]
    ELSE LET cache_data  == fs[cache_key]
             cached_time == FromIsoFormat(cache_data.timestamp)
         IN  IF Expired(t, cached_time)
             THEN [ret |-> None, files |-> RemoveKey(fs, cache_key)]
             ELSE IF ~HasValue(cache_data)
             THEN [ret |-> None, files |-> fs]
             ELSE [ret |-> cache_data.value, files |-> fs]

CacheSetKeepTimestamp(fs, t, value, args, kwargs) ==
    LET cache_key == _get_cache_key(args, kwargs) IN
    (cache_key :> [timestamp |-> IF cache_key \in DOMAIN fs
                                 THEN fs[cache_key].timestamp ELSE IsoFormat(t),
                   value |-> value]) @@ fs
CacheSet(fs, t, value, args, kwargs) ==
    LET cache_key  == _get_cache_key(args, kwargs)
        cache_data == [timestamp |-> IsoFormat(t), value |-> value]
    IN  (cache_key :> cache_data) @@ fs

\* Cache.clear_expired: every entry of the directory is read; the expired ones
\* and the ones that cannot be parsed are unlinked and counted.
CacheClearExpiredKeepCorrupt(fs, t) ==
    LET expired == {k \in DOMAIN fs : /\ ~Unparsable(fs[k])
                                      /\ Expired(t, FromIsoFormat(fs[k].timestamp))}
    IN  [count |-> Cardinality(expired),
         files |-> [k \in DOMAIN fs \ expired |-> fs[k]]]
CacheClearExpired(fs, t) ==
    LET expired == {k \in DOMAIN fs : /\ ~Unparsable(fs[k])
                                      /\ Expired(t, FromIsoFormat(fs[k].timestamp))}
        corrupt == {k \in DOMAIN fs : Unparsable(fs[k])}
    IN  [count |-> Cardinality(expired \cup corrupt),
         files |-> [k \in DOMAIN fs \ (expired \cup corrupt) |-> fs[k]]]

\* Cache.clear: every file of the directory is unlinked and counted.
CacheClearParsable(fs) ==
    [count |-> Cardinality({k \in DOMAIN fs : ~Unparsable(fs[k])}),
     files |-> [k \in {j \in DOMAIN fs : Unparsable(fs[j])} |-> fs[k]]]
CacheClear(fs) ==
    [count |-> Cardinality(DOMAIN fs), files |-> EmptyMap]

----------------------------------------------------------------------------
(* The external service, as the retry loop sees it *)

\* What one client.messages.create call does: it returns a message, raises
\* RateLimitError, or raises any other exception.
ApiOk(text, input_tokens, output_tokens) ==
    [kind |-> "ok", text |-> text, input_tokens |-> input_tokens,
     output_tokens |-> output_tokens]
ApiRateLimit == [kind |-> "rate", text |-> "", input_tokens |-> 0, output_tokens |-> 0]
ApiError     == [kind |-> "err", text |-> "", input_tokens |-> 0, output_tokens |-> 0]

\* except RateLimitError (base_agent.py:160); every other failure falls to
\* except Exception (base_agent.py:172).
IsAnyFailure(o) == o.kind # "ok"
IsRateLimitError(o) == o.kind = "rate"

\* wait_time = Settings.RETRY_DELAY * (attempt + 1), attempt counted from 0
WaitTimeConstant(attempt) == RETRY_DELAY
WaitTime(attempt) == RETRY_DELAY * (attempt + 1)

\* max_retries = max_retries or Settings.MAX_RETRIES
EffectiveMaxRetriesNoneOnly(max_retries, cfg) ==
    IF max_retries = {} THEN cfg ELSE CHOOSE n \in max_retries : TRUE
EffectiveMaxRetries(max_retries, cfg) ==
    IF max_retries = {} \/ max_retries = {0}
    THEN cfg
    ELSE CHOOSE n \in max_retries : TRUE

Returned(o, calls, sleeps) ==
    [status |-> "returned", exc |-> "",
     ret |-> Value(o.text, o.input_tokens, o.output_tokens),
     calls |-> calls, sleeps |-> sleeps]

Raised(exc, calls, sleeps) ==
    [status |-> "raised", exc |-> exc, ret |-> None, calls |-> calls, sleeps |-> sleeps]

\* for attempt in range(max_retries): ... and the two raises after the loop.
\* outs[i] is what the i-th external call of this run does.
RECURSIVE RetryLoop(_, _, _, _, _)
RetryLoop(n, attempt, outs, sleeps, last_exception) ==
    IF attempt >= n
    THEN Raised(IF last_exception # "" THEN last_exception ELSE "RuntimeError",
                attempt, sleeps)
    ELSE LET o == outs[attempt + 1] IN
         IF o.kind = "ok"
         THEN Returned(o, attempt + 1, sleeps)
         ELSE IF IsRateLimitError(o)
         THEN IF attempt < n - 1
              THEN RetryLoop(n, attempt + 1, outs,
                             Append(sleeps, WaitTime(attempt)), "RateLimitError")
              ELSE Raised("RateLimitError", attempt + 1, sleeps)
         ELSE Raised("Exception", attempt + 1, sleeps)

_call_api_with_retry(max_retries, cfg, outs) ==
    RetryLoop(EffectiveMaxRetries(max_retries, cfg), 0, outs, <<>>, "")

----------------------------------------------------------------------------
(* invoke *)

\* if cached_response: a stored invocation result is a non-empty dict
Truthy(v) == v # None

\* return cached_response['text'], 0, 0
CacheHitReturnStored(v) == v
CacheHitReturn(v) == Value(v.text, 0, 0)

\* if use_cache and self.cache and Settings.ENABLE_CACHING
UsesCacheIgnoringSetting(use_cache, has_cache, enable) == use_cache /\ has_cache
UsesCacheAlways(use_cache, has_cache, enable) == has_cache /\ enable
UsesCache(use_cache, has_cache, enable) == use_cache /\ has_cache /\ enable

\* invoke: fs and t are the cache directory and the clock (the backoff sleeps
\* last seconds, the clock counts hours).  The result holds the directory at
\* exit and what invoke did on the way.
Invoke(fs, t, has_cache, enable, cfg, name, prompt, context, use_cache, max_retries, outs) ==
    LET cached == UsesCache(use_cache, has_cache, enable)
        kwargs == Kwargs(InvokeOrder, name, prompt, context)
        g      == IF cached THEN CacheGet(fs, t, <<>>, kwargs)
                            ELSE [ret |-> None, files |-> fs]
    IN  IF cached /\ Truthy(g.ret)
        THEN [status |-> "returned", exc |-> "", ret |-> CacheHitReturn(g.ret),
              calls |-> 0, sleeps |-> <<>>, gets |-> 1, sets |-> 0,
              files |-> g.files]
        ELSE LET r == _call_api_with_retry(max_retries, cfg, outs) IN
             IF r.status = "returned"
             THEN [status |-> "returned", exc |-> "", ret |-> r.ret,
                   calls |-> r.calls, sleeps |-> r.sleeps,
                   gets |-> IF cached THEN 1 ELSE 0,
                   sets |-> IF cached THEN 1 ELSE 0,
                   files |-> IF cached
                             THEN CacheSet(g.files, t, r.ret, <<>>, kwargs)
                             ELSE g.files]
             ELSE [status |-> "raised", exc |-> r.exc, ret |-> None,
                   calls |-> r.calls, sleeps |-> r.sleeps,
                   gets |-> IF cached THEN 1 ELSE 0, sets |-> 0,
                   files |-> g.files]

----------------------------------------------------------------------------
(* Usage ledger *)

\* TokenUsage(): the three counters start at 0 (token_counter.py:10-12).
TokenUsage == [input_tokens |-> 0, output_tokens |-> 0, total_tokens |-> 0]

\* TokenUsage.add
TokenUsageAddInputOnly(u, input_tokens, output_tokens) ==
    [input_tokens  |-> u.input_tokens + input_tokens,
     output_tokens |-> u.output_tokens + output_tokens,
     total_tokens  |-> u.total_tokens + input_tokens]
TokenUsageAdd(u, input_tokens, output_tokens) ==
    [input_tokens  |-> u.input_tokens + input_tokens,
     output_tokens |-> u.output_tokens + output_tokens,
     total_tokens  |-> u.total_tokens + (input_tokens + output_tokens)]

\* TokenCounter.track, run from entry to return with nothing in between.
TrackSeq(uba, tot, agent_name, input_tokens, output_tokens) ==
    LET created == IF agent_name \in DOMAIN uba THEN uba
                   ELSE (agent_name :> TokenUsage) @@ uba
    IN  [usage_by_agent |->
            [created EXCEPT ![agent_name] =
                TokenUsageAdd(created[agent_name], input_tokens, output_tokens)],
         total_usage |-> TokenUsageAdd(tot, input_tokens, output_tokens)]

----------------------------------------------------------------------------
(* The Cache API driven by arbitrary callers *)

CacheNames    == {"n1", "n2"}
CachePrompts  == {"p1"}
CacheContexts == {"c1"}
CacheValues   == {Value("t1", 2, 1), Value("t2", 1, 1)}

CacheIdle ==
    /\ files = EmptyMap
    /\ now = 0
    /\ lastOp = NoOp
    /\ written = EmptyMap

\* The defaults of settings.py:35, settings.py:36 and settings.py:40.
SettingsDefault ==
    /\ ENABLE_CACHING = TRUE
    /\ MAX_RETRIES = DEFAULT_MAX_RETRIES
    /\ PARALLEL_EXECUTION = FALSE

InvokerIdle ==
    /\ retryRes = NoOp
    /\ invRes = NoOp

\* TokenCounter() as the orchestrator builds it (orchestrator.py:35).
LedgerIdle ==
    /\ usage_by_agent = EmptyMap
    /\ total_usage = TokenUsage
    /\ tracked = <<>>

ThreadsIdle ==
    /\ tpc = EmptyMap
    /\ ttmp = EmptyMap
    /\ targs = EmptyMap

PipelineIdle ==
    /\ pc = "idle"
    /\ companies = <<>>
    /\ document_locations = <<>>
    /\ analyses = <<>>
    /\ trace = <<>>
    /\ report = None
    /\ runs = 0
    /\ exit_code = {}
    /\ recovering = FALSE

InitCache ==
    /\ CacheIdle
    /\ SettingsDefault
    /\ InvokerIdle
    /\ LedgerIdle /\ ThreadsIdle /\ PipelineIdle

\* The file the directory holds under the key of these arguments, if any.
EntryOf(fs, kwargs) ==
    IF _get_cache_key(<<>>, kwargs) \in DOMAIN fs
    THEN fs[_get_cache_key(<<>>, kwargs)]
    ELSE None

Get(a, p, c, order) ==
    LET r == CacheGet(files, now, <<>>, Kwargs(order, a, p, c)) IN
    /\ files' = r.files
    /\ lastOp' = [op |-> "get", parts |-> <<a, p, c>>, at |-> now, ret |-> r.ret,
                  reordered |-> /\ <<a, p, c>> \in DOMAIN written
                                /\ written[<<a, p, c>>].order # order,
                  before |-> EntryOf(files, Kwargs(order, a, p, c))]
    /\ UNCHANGED <<now, written, cfgVars, invokerVars, ledgerVars, threadVars, pipeVars>>

Set(v, a, p, c, order) ==
    /\ files' = CacheSet(files, now, v, <<>>, Kwargs(order, a, p, c))
    /\ lastOp' = [op |-> "set", parts |-> <<a, p, c>>, at |-> now, ret |-> None,
                  reordered |-> FALSE,
                  before |-> EntryOf(files, Kwargs(order, a, p, c))]
    /\ written' = (<<a, p, c>> :> [value |-> v, at |-> now, order |-> order]) @@ written
    /\ UNCHANGED <<now, cfgVars, invokerVars, ledgerVars, threadVars, pipeVars>>

ClearExpired ==
    \E r \in {CacheClearExpired(files, now)} :
        /\ files' = r.files
        /\ lastOp' = [op |-> "clear_expired", at |-> now, count |-> r.count,
                      before |-> files]
        /\ UNCHANGED <<now, written, cfgVars, invokerVars, ledgerVars, threadVars, pipeVars>>

Tick ==
    /\ now < MaxClock
    /\ now' = now + 1
    /\ UNCHANGED <<files, lastOp, written, cfgVars, invokerVars, ledgerVars, threadVars, pipeVars>>

\* SpecCache: every value, the keyword order invoke uses.
NextCache ==
    \/ \E a \in CacheNames, p \in CachePrompts, c \in CacheContexts :
            Get(a, p, c, InvokeOrder)
    \/ \E v \in CacheValues, a \in CacheNames, p \in CachePrompts, c \in CacheContexts :
            Set(v, a, p, c, InvokeOrder)
    \/ ClearExpired
    \/ Tick

SpecCache == InitCache /\ [][NextCache]_vars

\* SpecKey: every order of the keyword arguments.
KeyValue == Value("t1", 2, 1)

NextKey ==
    \/ \E a \in CacheNames, p \in CachePrompts, c \in CacheContexts, o \in KwOrders :
            Get(a, p, c, o)
    \/ \E a \in CacheNames, p \in CachePrompts, c \in CacheContexts, o \in KwOrders :
            Set(KeyValue, a, p, c, o)
    \/ Tick

SpecKey == InitCache /\ [][NextKey]_vars

----------------------------------------------------------------------------
(* SpecRetry: _call_api_with_retry applied to every configuration and every    *)
(* behaviour of the service                                                    *)

Texts == {"t1", "t2"}

\* What the service can do on one call.
Outcomes == {ApiOk(t, 2, 1) : t \in Texts} \cup {ApiRateLimit, ApiError}

\* The calls one run can make are at most MaxRetriesCfg.
OutcomeSeqs == [1..MaxRetriesCfg -> Outcomes]

\* max_retries as a caller can pass it: absent, or a number.
MaxRetriesArgs == {{}, {0 - 1}} \cup {{n} : n \in 0..MaxRetriesCfg}

InitRetry ==
    /\ CacheIdle
    /\ ENABLE_CACHING = TRUE
    /\ MAX_RETRIES \in RetryCfgs
    /\ PARALLEL_EXECUTION = FALSE
    /\ InvokerIdle
    /\ LedgerIdle /\ ThreadsIdle /\ PipelineIdle

CallApiWithRetry(max_retries, outs) ==
    /\ retryRes = NoOp
    /\ retryRes' = [op |-> "retry",
                    arg |-> max_retries,
                    n |-> EffectiveMaxRetries(max_retries, MAX_RETRIES),
                    outs |-> outs,
                    res |-> _call_api_with_retry(max_retries, MAX_RETRIES, outs)]
    /\ UNCHANGED <<cacheVars, cfgVars, invRes, ledgerVars, threadVars, pipeVars>>

NextRetry ==
    \E max_retries \in MaxRetriesArgs, outs \in OutcomeSeqs :
        CallApiWithRetry(max_retries, outs)

SpecRetry == InitRetry /\ [][NextRetry]_vars

----------------------------------------------------------------------------
(* SpecInvoke: invoke called by agents built with and without a cache, over a  *)
(* cache directory that outlives the process and its settings                  *)

AgentNames == {"LeadDocumentLocator", "OracleAnalyst"}

\* The entry of these key parts that a lookup at time t would accept, read
\* from the directory itself.
FreshEntry(fs, t, name, prompt, context) ==
    LET k == _get_cache_key(<<>>, Kwargs(InvokeOrder, name, prompt, context)) IN
    IF k \in DOMAIN fs /\ t - FromIsoFormat(fs[k].timestamp) <= TtlHours
    THEN fs[k].value
    ELSE None

\* The attempt counts invoke is driven with, and the behaviours of the service
\* a run with at most that many calls can observe.
InvokeRetryCfgs == {0, MaxInvokeRetries}

\* The text the service answers an agent's prompt with.
AnswerFor(name) == IF name = "LeadDocumentLocator" THEN "t1" ELSE "t2"

InvokeOutcomeSeqs(name) ==
    {outs \in [1..MaxInvokeRetries -> {ApiOk(AnswerFor(name), 2, 1), ApiRateLimit, ApiError}] :
        \A i, j \in 1..MaxInvokeRetries :
            (i < j /\ outs[i].kind # "rate") => outs[j] = ApiError}

\* What is kept of one run of invoke: its arguments, the entry the directory
\* held for them at entry, what it returned or raised, the external calls and
\* the cache operations it made, and whether it left the directory as it was.
InvokeRecord(name, prompt, context, use_cache, has_cache, r) ==
    [op |-> "invoke", name |-> name, use_cache |-> use_cache, has_cache |-> has_cache,
     entry |-> FreshEntry(files, now, name, prompt, context),
     status |-> r.status, exc |-> r.exc, ret |-> r.ret,
     calls |-> r.calls, gets |-> r.gets, sets |-> r.sets,
     same_files |-> r.files = files]

InitInvoke ==
    /\ CacheIdle
    /\ ENABLE_CACHING \in BOOLEAN
    /\ MAX_RETRIES \in InvokeRetryCfgs
    /\ PARALLEL_EXECUTION = FALSE
    /\ InvokerIdle
    /\ LedgerIdle /\ ThreadsIdle /\ PipelineIdle

DoInvoke(has_cache, name, prompt, context, use_cache, outs) ==
    \E r \in {Invoke(files, now, has_cache, ENABLE_CACHING, MAX_RETRIES, name, prompt,
                      context, use_cache, {}, outs)} :
        /\ files' = r.files
        /\ invRes' = InvokeRecord(name, prompt, context, use_cache, has_cache, r)
        /\ UNCHANGED <<now, lastOp, written, cfgVars, retryRes, ledgerVars, threadVars, pipeVars>>

\* A new process: the settings are read again, the cache directory stays.
Restart ==
    /\ ENABLE_CACHING' \in BOOLEAN
    /\ MAX_RETRIES' \in InvokeRetryCfgs
    /\ invRes' = NoOp
    /\ UNCHANGED <<cacheVars, PARALLEL_EXECUTION, retryRes, ledgerVars, threadVars, pipeVars>>

NextInvoke ==
    \/ \E has_cache \in BOOLEAN, name \in AgentNames, use_cache \in BOOLEAN :
          \E outs \in InvokeOutcomeSeqs(name) :
            DoInvoke(has_cache, name, "p1", "c1", use_cache, outs)
    \/ Tick
    \/ Restart

SpecInvoke == InitInvoke /\ [][NextInvoke]_vars

----------------------------------------------------------------------------
(* SpecLedger: track called any number of times, one call after the other *)

LedgerAgents == {"LeadAgent", "OracleAnalyst"}
Models       == {"claude-haiku-4-5-20250929", "claude-sonnet-4-5-20250929"}
TokenInputs  == {1, 10}
TokenOutputs == {0, 5}

InitLedger ==
    /\ CacheIdle
    /\ SettingsDefault
    /\ InvokerIdle
    /\ LedgerIdle /\ ThreadsIdle /\ PipelineIdle

Track(agent_name, model, input_tokens, output_tokens) ==
    /\ Len(tracked) < MaxTracks
    /\ \E r \in {TrackSeq(usage_by_agent, total_usage, agent_name,
                          input_tokens, output_tokens)} :
        /\ usage_by_agent' = r.usage_by_agent
        /\ total_usage' = r.total_usage
    /\ tracked' = Append(tracked, <<agent_name, input_tokens, output_tokens>>)
    /\ UNCHANGED <<cacheVars, cfgVars, invokerVars, threadVars, pipeVars>>

NextLedger ==
    \E a \in LedgerAgents, m \in Models, i \in TokenInputs, o \in TokenOutputs :
        Track(a, m, i, o)

SpecLedger == InitLedger /\ [][NextLedger]_vars

----------------------------------------------------------------------------
(* SpecTrack: track called by several threads at once, each for its own      *)
(* agent, interleaved at the loads and stores of its statements              *)

Threads == 1..NThreads

ThreadAgent(i) == "Company" \o ToString(i) \o "Analyst"

\* The statements of track and of the two add calls it makes, in order.  Each
\* += is a load of the attribute followed by a store of the sum.
Program ==
    << [op |-> "check"], [op |-> "create"],
       [op |-> "load",  obj |-> "own",   fld |-> "input_tokens"],
       [op |-> "store", obj |-> "own",   fld |-> "input_tokens"],
       [op |-> "load",  obj |-> "own",   fld |-> "output_tokens"],
       [op |-> "store", obj |-> "own",   fld |-> "output_tokens"],
       [op |-> "load",  obj |-> "own",   fld |-> "total_tokens"],
       [op |-> "store", obj |-> "own",   fld |-> "total_tokens"],
       [op |-> "load",  obj |-> "total", fld |-> "input_tokens"],
       [op |-> "store", obj |-> "total", fld |-> "input_tokens"],
       [op |-> "load",  obj |-> "total", fld |-> "output_tokens"],
       [op |-> "store", obj |-> "total", fld |-> "output_tokens"],
       [op |-> "load",  obj |-> "total", fld |-> "total_tokens"],
       [op |-> "store", obj |-> "total", fld |-> "total_tokens"],
       [op |-> "done"] >>

\* What a statement of add adds to the attribute it updates.
Increment(args, fld) ==
    CASE fld = "input_tokens"  -> args[1]
      [] fld = "output_tokens" -> args[2]
      [] fld = "total_tokens"  -> args[1] + args[2]

ThreadArgs == {<<1, 0>>, <<10, 5>>}

InitTrack ==
    /\ CacheIdle
    /\ SettingsDefault
    /\ InvokerIdle
    /\ LedgerIdle
    /\ tpc = [i \in Threads |-> 1]
    /\ ttmp = [i \in Threads |-> 0]
    /\ targs \in [Threads -> ThreadArgs]
    /\ PipelineIdle

\* if agent_name not in self.usage_by_agent
TCheck(i) ==
    /\ Program[tpc[i]].op = "check"
    /\ tpc' = [tpc EXCEPT ![i] = IF ThreadAgent(i) \in DOMAIN usage_by_agent
                                 THEN tpc[i] + 2 ELSE tpc[i] + 1]
    /\ UNCHANGED <<usage_by_agent, total_usage, tracked, ttmp, targs>>
    /\ UNCHANGED <<cacheVars, cfgVars, invokerVars, pipeVars>>

\* self.usage_by_agent[agent_name] = TokenUsage()
TCreate(i) ==
    /\ Program[tpc[i]].op = "create"
    /\ usage_by_agent' = (ThreadAgent(i) :> TokenUsage) @@ usage_by_agent
    /\ tpc' = [tpc EXCEPT ![i] = tpc[i] + 1]
    /\ UNCHANGED <<total_usage, tracked, ttmp, targs>>
    /\ UNCHANGED <<cacheVars, cfgVars, invokerVars, pipeVars>>

TLoad(i) ==
    LET st == Program[tpc[i]] IN
    /\ st.op = "load"
    /\ ttmp' = [ttmp EXCEPT ![i] = IF st.obj = "own"
                                   THEN usage_by_agent[ThreadAgent(i)][st.fld]
                                   ELSE total_usage[st.fld]]
    /\ tpc' = [tpc EXCEPT ![i] = tpc[i] + 1]
    /\ UNCHANGED <<usage_by_agent, total_usage, tracked, targs>>
    /\ UNCHANGED <<cacheVars, cfgVars, invokerVars, pipeVars>>

TStore(i) ==
    LET st == Program[tpc[i]]
        v  == ttmp[i] + Increment(targs[i], st.fld)
    IN
    /\ st.op = "store"
    /\ IF st.obj = "own"
       THEN /\ usage_by_agent' = [usage_by_agent EXCEPT ![ThreadAgent(i)][st.fld] = v]
            /\ UNCHANGED total_usage
       ELSE /\ total_usage' = [total_usage EXCEPT ![st.fld] = v]
            /\ UNCHANGED usage_by_agent
    /\ tpc' = [tpc EXCEPT ![i] = tpc[i] + 1]
    /\ UNCHANGED <<tracked, ttmp, targs>>
    /\ UNCHANGED <<cacheVars, cfgVars, invokerVars, pipeVars>>

NextTrack ==
    \E i \in Threads : TCheck(i) \/ TCreate(i) \/ TLoad(i) \/ TStore(i)

SpecTrack == InitTrack /\ [][NextTrack]_vars

----------------------------------------------------------------------------
(* Stage workers: requests, answers and their decoding *)

DEFAULT_COMPANIES == <<"Oracle", "IBM", "Cisco", "SAP", "Walmart", "Salesforce">>

RECURSIVE Join(_)
Join(names) ==
    IF names = <<>> THEN ""
    ELSE IF Len(names) = 1 THEN names[1]
    ELSE names[1] \o ", " \o Join(Tail(names))

\* JSON documents, and the text the service writes them as.
JsonArray(names)  == [array |-> names]
JsonObject(gen, ml) == [gen_ai_mentions |-> gen, ml_mentions |-> ml]

ArrayText(names)    == "[" \o Join(names) \o "]"
ObjectText(gen, ml) == "{gen_ai_mentions: " \o ToString(gen) \o ", ml_mentions: "
                       \o ToString(ml) \o "}"
Garbage == "I am unable to help with that."

\* The documents the modelled answers can hold.
Reverse(names) == [i \in 1..Len(names) |-> names[Len(names) + 1 - i]]

CompanyLists ==
    LET prefixes == {SubSeq(DEFAULT_COMPANIES, 1, k) : k \in 0..(MaxCompanies + 1)}
    IN  prefixes \cup {Reverse(names) : names \in prefixes}
MentionCounts == 0..2

\* extract_json: the document a text holds, None when it holds none.
extract_json(text) ==
    IF \E names \in CompanyLists : text = ArrayText(names)
    THEN JsonArray(CHOOSE names \in CompanyLists : text = ArrayText(names))
    ELSE IF \E g \in MentionCounts, m \in MentionCounts : text = ObjectText(g, m)
    THEN LET gm == CHOOSE gm \in MentionCounts \X MentionCounts :
                       text = ObjectText(gm[1], gm[2])
         IN  JsonObject(gm[1], gm[2])
    ELSE None

\* LeadAgent
LeadName == "LeadDocumentLocator"

LeadPrompt(cs) == "Locate the most recent 10-K filings for these companies: " \o Join(cs)

LocatedDescriptor(company) ==
    [company |-> company, tenk_url |-> "https://www.sec.gov/" \o company,
     earnings_transcript_url |-> "https://ir/" \o company]

DefaultDescriptor(company) ==
    [company |-> company,
     tenk_url |-> "https://www.sec.gov/cgi-bin/browse-edgar?company=" \o company,
     earnings_transcript_url |-> "N/A"]

\* What len() and a for loop see of a decoded JSON object: its keys, none of
\* which is a descriptor.
DictItems(doc) == <<[key |-> "gen_ai_mentions"], [key |-> "ml_mentions"]>>

\* locate_documents after invoke: the decoded list, or the default structure.
LocateDecodeNoDefault(text, cs) ==
    LET doc == extract_json(text) IN
    IF doc = None THEN <<>>
    ELSE [i \in 1..Len(doc.array) |-> LocatedDescriptor(doc.array[i])]
LocateDecode(text, cs) ==
    LET doc == extract_json(text) IN
    IF doc = None
    THEN [i \in 1..Len(cs) |-> DefaultDescriptor(cs[i])]
    ELSE IF "array" \in DOMAIN doc
    THEN [i \in 1..Len(doc.array) |-> LocatedDescriptor(doc.array[i])]
    ELSE DictItems(doc)

\* CompanyAnalysisAgent
AnalystName(company) == company \o "Analyst"

AnalystPrompt(company) == "Based on your knowledge of " \o company

AnalystContext(doc_info) ==
    "Analyzing: " \o doc_info.company \o " Document sources: company: " \o doc_info.company
    \o " tenk_url: " \o doc_info.tenk_url
    \o (IF doc_info.earnings_transcript_url # "N/A"
        THEN " earnings_transcript_url: " \o doc_info.earnings_transcript_url
        ELSE "")

\* analyze_documents after invoke: the CompanyAnalysis built from the answer.
AnalyzeDecodeUnflagged(text, doc_info) ==
    LET data == extract_json(text) IN
    [company |-> doc_info.company,
     gen_ai_mentions |-> IF data = None THEN 0 ELSE data.gen_ai_mentions,
     ml_mentions |-> IF data = None THEN 0 ELSE data.ml_mentions,
     capex_ai |-> "Not disclosed", key_insights |-> ""]
AnalyzeDecode(text, doc_info) ==
    LET data == extract_json(text) IN
    IF data = None
    THEN [company |-> doc_info.company, gen_ai_mentions |-> 0, ml_mentions |-> 0,
          capex_ai |-> "Error in analysis", key_insights |-> "Analysis failed"]
    ELSE [company |-> doc_info.company, gen_ai_mentions |-> data.gen_ai_mentions,
          ml_mentions |-> data.ml_mentions,
          capex_ai |-> "Not disclosed", key_insights |-> ""]

\* SynthesisAgent
SynthesisName == "SynthesisAgent"

SynthesisPrompt == "Create a comprehensive Talk vs Walk analysis report"

TotalMentions(a) == a.gen_ai_mentions + a.ml_mentions

\* company_data.sort(key=total_mentions, reverse=True): a stable sort.
RECURSIVE InsertByTotal(_, _)
InsertByTotal(a, sorted) ==
    IF sorted = <<>> THEN <<a>>
    ELSE IF TotalMentions(Head(sorted)) >= TotalMentions(a)
    THEN <<Head(sorted)>> \o InsertByTotal(a, Tail(sorted))
    ELSE <<a>> \o sorted

KeepOrder(as) == as
RECURSIVE SortByTotalDesc(_)
SortByTotalDesc(as) ==
    IF as = <<>> THEN <<>>
    ELSE InsertByTotal(as[Len(as)], SortByTotalDesc(SubSeq(as, 1, Len(as) - 1)))

RECURSIVE CompanyDataText(_)
CompanyDataText(as) ==
    IF as = <<>> THEN ""
    ELSE Head(as).company \o ":" \o ToString(TotalMentions(Head(as))) \o ";"
         \o CompanyDataText(Tail(as))

SynthesisContext(as) == "Company Analysis Data: " \o CompanyDataText(SortByTotalDesc(as))

----------------------------------------------------------------------------
(* SpecPipeline: the program started up to MaxRuns times on one cache         *)
(* directory, each start with its own settings                                *)

Requests == {SubSeq(DEFAULT_COMPANIES, 1, k) : k \in 1..MaxCompanies}

\* What the service answers each stage worker with.
MentionsOf(company) ==
    CASE company = "Oracle" -> <<1, 0>>
      [] company = "IBM"    -> <<1, 1>>
      [] OTHER              -> <<0, 1>>

LeadAnswers(cs) == {ArrayText(cs), Garbage}
AnalystAnswers(company) ==
    {ObjectText(MentionsOf(company)[1], MentionsOf(company)[2]), Garbage}
SynthesisAnswers == {"# AI Investment Analysis"}

\* The behaviours of the service one run of invoke can observe, its answers
\* taken from the given texts.
ServiceRuns(texts) ==
    {outs \in [1..MaxInvokeRetries -> {ApiOk(t, 2, 1) : t \in texts}
                                       \cup {ApiRateLimit, ApiError}] :
        \A i, j \in 1..MaxInvokeRetries :
            (i < j /\ outs[i].kind # "rate") => outs[j] = ApiError}

InitPipeline ==
    /\ CacheIdle
    /\ SettingsDefault
    /\ InvokerIdle
    /\ LedgerIdle /\ ThreadsIdle /\ PipelineIdle

\* for i, doc_info in enumerate(document_locations): the loop goes on while
\* descriptors are left, then run_analysis moves to phase 3.
AfterItemEarly(done, total) == IF done >= 1 THEN "phase3" ELSE "phase2"
AfterItem(done, total) == IF done >= total THEN "phase3" ELSE "phase2"

\* Where a process that is not running is: not started yet, or main returned.
Exited == {"idle", "done", "failed", "interrupted"}

\* main's except clauses: the code it returns for an exception.
ExitOnExceptionAsSuccess(exc) == IF exc = "KeyboardInterrupt" THEN 130 ELSE 0
ExitOnException(exc) ==
    IF exc = "ValueError" THEN 1
    ELSE IF exc = "KeyboardInterrupt" THEN 130
    ELSE 1

\* The run that has ended went through phases 1 and 2 with the cache and then
\* raised in phase 3.
LateFailure ==
    /\ pc = "failed"
    /\ ENABLE_CACHING
    /\ invRes.op = "invoke"
    /\ invRes.name = SynthesisName
    /\ invRes.status = "raised"

\* The entries of the lead's call and of the analysts' calls of the run that
\* has ended are in the directory and not older than the TTL.
StillCached ==
    /\ FreshEntry(files, now, LeadName, LeadPrompt(companies), "") # None
    /\ \A i \in DOMAIN document_locations :
          FreshEntry(files, now, AnalystName(document_locations[i].company),
                     AnalystPrompt(document_locations[i].company),
                     AnalystContext(document_locations[i])) # None

\* main: a new process reads its settings, builds the orchestrator (a new
\* TokenCounter, a Cache when caching is enabled) and calls run_analysis.
StartRun(cs, enable, max_retries, parallel) ==
    /\ pc \in Exited
    /\ runs < MaxRuns
    /\ runs' = runs + 1
    /\ exit_code' = {}
    /\ ENABLE_CACHING' = enable
    /\ MAX_RETRIES' = max_retries
    /\ PARALLEL_EXECUTION' = parallel
    /\ usage_by_agent' = EmptyMap
    /\ total_usage' = TokenUsage
    /\ tracked' = <<>>
    /\ companies' = cs
    /\ document_locations' = <<>>
    /\ analyses' = <<>>
    /\ trace' = <<>>
    /\ report' = None
    /\ invRes' = NoOp
    /\ pc' = "phase1"
    /\ recovering' = (LateFailure /\ StillCached /\ cs = companies /\ enable)
    /\ UNCHANGED <<cacheVars, retryRes, threadVars>>

\* The ledger after track(agent_name, model, input, output).
TrackStep(agent_name, input_tokens, output_tokens) ==
    \E l \in {TrackSeq(usage_by_agent, total_usage, agent_name,
                       input_tokens, output_tokens)} :
        /\ usage_by_agent' = l.usage_by_agent
        /\ total_usage' = l.total_usage
        /\ tracked' = Append(tracked, <<agent_name, input_tokens, output_tokens>>)

\* An exception leaves run_analysis and ends the run.
RunFails ==
    /\ pc' = "failed"
    /\ exit_code' = {ExitOnException("Exception")}
    /\ UNCHANGED <<ledgerVars, document_locations, analyses, trace, report>>

\* _phase_1_locate_documents and the track call that follows it.
Phase1(outs) ==
    /\ pc = "phase1"
    /\ \E r \in {Invoke(files, now, ENABLE_CACHING, ENABLE_CACHING, MAX_RETRIES, LeadName,
                        LeadPrompt(companies), "", TRUE, {}, outs)} :
        /\ files' = r.files
        /\ invRes' = InvokeRecord(LeadName, LeadPrompt(companies), "", TRUE,
                                  ENABLE_CACHING, r)
        /\ IF r.status = "raised"
           THEN RunFails
           ELSE /\ document_locations' = LocateDecode(r.ret.text, companies)
                /\ TrackStep("LeadAgent", r.ret.input_tokens, r.ret.output_tokens)
                /\ trace' = Append(trace, "phase1")
                /\ pc' = AfterItem(0, Len(document_locations'))
                /\ UNCHANGED <<analyses, report, exit_code>>
    /\ UNCHANGED <<now, lastOp, written, cfgVars, retryRes, threadVars, companies, runs, recovering>>

\* One turn of the loop of _phase_2_analyze_companies: the agent of the next
\* descriptor, its analyze_documents, the append and the track call.
Phase2Item(outs) ==
    /\ pc = "phase2"
    /\ LET doc_info == document_locations[Len(analyses) + 1]
           company  == doc_info.company
       IN  \E r \in {Invoke(files, now, ENABLE_CACHING, ENABLE_CACHING, MAX_RETRIES,
                           AnalystName(company), AnalystPrompt(company),
                           AnalystContext(doc_info), TRUE, {}, outs)} :
            /\ files' = r.files
            /\ invRes' = InvokeRecord(AnalystName(company), AnalystPrompt(company),
                                      AnalystContext(doc_info), TRUE, ENABLE_CACHING, r)
            /\ IF r.status = "raised"
               THEN RunFails
               ELSE /\ analyses' = Append(analyses, AnalyzeDecode(r.ret.text, doc_info))
                    /\ TrackStep(AnalystName(company), r.ret.input_tokens,
                                 r.ret.output_tokens)
                    /\ trace' = Append(trace, "phase2")
                    /\ pc' = AfterItem(Len(analyses'), Len(document_locations))
                    /\ UNCHANGED <<document_locations, report, exit_code>>
    /\ UNCHANGED <<now, lastOp, written, cfgVars, retryRes, threadVars, companies, runs, recovering>>

\* _phase_3_synthesize and the track call that follows it.
Phase3(outs) ==
    /\ pc = "phase3"
    /\ \E r \in {Invoke(files, now, ENABLE_CACHING, ENABLE_CACHING, MAX_RETRIES,
                        SynthesisName, SynthesisPrompt, SynthesisContext(analyses),
                        FALSE, {}, outs)} :
        /\ files' = r.files
        /\ invRes' = InvokeRecord(SynthesisName, SynthesisPrompt,
                                  SynthesisContext(analyses), FALSE, ENABLE_CACHING, r)
        /\ IF r.status = "raised"
           THEN RunFails
           ELSE /\ TrackStep(SynthesisName, r.ret.input_tokens, r.ret.output_tokens)
                /\ trace' = Append(trace, "phase3")
                /\ pc' = "save"
                /\ UNCHANGED <<document_locations, analyses, report, exit_code>>
    /\ UNCHANGED <<now, lastOp, written, cfgVars, retryRes, threadVars, companies, runs, recovering>>

\* _save_report: the metadata header, then the report.
SaveReport ==
    /\ pc = "save"
    /\ report' = [text |-> "--- title: AI Investment Analysis - Talk vs Walk ---"
                            \o invRes.ret.text]
    /\ trace' = Append(trace, "save")
    /\ pc' = "done"
    /\ exit_code' = {0}
    /\ UNCHANGED <<cacheVars, cfgVars, invokerVars, ledgerVars, threadVars,
                   companies, document_locations, analyses, runs, recovering>>

\* Time passes between two starts of the program.
Wait ==
    /\ pc \in Exited
    /\ 0 < runs /\ runs < MaxRuns
    /\ Tick

\* Settings.validate raises ValueError in MultiAgentOrchestrator.__init__: the
\* API key is missing.  Nothing of the run has started.
StartInvalid ==
    /\ pc \in Exited
    /\ runs < MaxRuns
    /\ runs' = runs + 1
    /\ pc' = "failed"
    /\ exit_code' = {ExitOnException("ValueError")}
    /\ usage_by_agent' = EmptyMap
    /\ total_usage' = TokenUsage
    /\ tracked' = <<>>
    /\ companies' = <<>>
    /\ document_locations' = <<>>
    /\ analyses' = <<>>
    /\ trace' = <<>>
    /\ report' = None
    /\ invRes' = NoOp
    /\ recovering' = FALSE
    /\ UNCHANGED <<cacheVars, cfgVars, retryRes, threadVars>>

\* The user interrupts the run: KeyboardInterrupt is not an Exception, the
\* retry loop lets it through and main returns 130.
Interrupt ==
    /\ pc \in {"phase1", "phase2", "phase3", "save"}
    /\ pc' = "interrupted"
    /\ exit_code' = {ExitOnException("KeyboardInterrupt")}
    /\ UNCHANGED <<cacheVars, cfgVars, invokerVars, ledgerVars, threadVars,
                   companies, document_locations, analyses, trace, report, runs, recovering>>

NextPipeline ==
    \/ \E cs \in Requests, enable \in BOOLEAN, max_retries \in InvokeRetryCfgs,
          parallel \in BOOLEAN :
            StartRun(cs, enable, max_retries, parallel)
    \/ StartInvalid
    \/ Interrupt
    \/ \E outs \in ServiceRuns(LeadAnswers(companies)) : Phase1(outs)
    \/ \E outs \in UNION {ServiceRuns(AnalystAnswers(c)) : c \in Range(companies)} :
            Phase2Item(outs)
    \/ \E outs \in ServiceRuns(SynthesisAnswers) : Phase3(outs)
    \/ SaveReport
    \/ Wait

SpecPipeline == InitPipeline /\ [][NextPipeline]_vars

----------------------------------------------------------------------------
(* SpecStorage: invoke over a cache directory whose file operations can fail *)

\* What can go wrong while get reads an entry that exists: open raises OSError,
\* the file has gone since the existence check (open raises
\* FileNotFoundError), its content does not parse, or unlink raises OSError.
ReadFaults == {"none", "open", "vanished", "decode", "unlink"}

\* What can go wrong while set writes: open raises OSError.
WriteFaults == {"none", "open"}

\* Cache.get under a fault: what it returns or raises, and the directory after.
CacheGetIO(fs, t, args, kwargs, fault) ==
    LET cache_key == _get_cache_key(args, kwargs)
        g         == CacheGet(fs, t, args, kwargs)
    IN  IF cache_key \notin DOMAIN fs
        THEN [status |-> "returned", exc |-> "", ret |-> None, files |-> fs]
        ELSE IF fault = "open"
        THEN [status |-> "raised", exc |-> "OSError", ret |-> None, files |-> fs]
        ELSE IF fault = "vanished"
        THEN [status |-> "raised", exc |-> "FileNotFoundError", ret |-> None,
              files |-> RemoveKey(fs, cache_key)]
        ELSE IF fault = "decode"
        THEN [status |-> "returned", exc |-> "", ret |-> None, files |-> fs]
        ELSE IF fault = "unlink" /\ Expired(t, FromIsoFormat(fs[cache_key].timestamp))
        THEN [status |-> "raised", exc |-> "OSError", ret |-> None, files |-> fs]
        ELSE [status |-> "returned", exc |-> "", ret |-> g.ret, files |-> g.files]

\* Cache.set under a fault.
CacheSetIO(fs, t, value, args, kwargs, fault) ==
    IF fault = "open"
    THEN [status |-> "raised", exc |-> "OSError", files |-> fs]
    ELSE [status |-> "returned", exc |-> "", files |-> CacheSet(fs, t, value, args, kwargs)]

\* invoke with a cache, use_cache=True and caching enabled, under the faults
\* rfault of its lookup and wfault of its write.  api is how the retry loop
\* ended ("none" when it was not reached) and api_ret what it returned.
InvokeIO(fs, t, cfg, name, prompt, context, outs, rfault, wfault) ==
    LET kwargs == Kwargs(InvokeOrder, name, prompt, context)
        g      == CacheGetIO(fs, t, <<>>, kwargs, rfault)
        r      == _call_api_with_retry({}, cfg, outs)
        w      == CacheSetIO(g.files, t, r.ret, <<>>, kwargs, wfault)
    IN  IF g.status = "raised"
        THEN [status |-> "raised", exc |-> g.exc, ret |-> None, calls |-> 0,
              gets |-> 1, sets |-> 0, api |-> "none", api_ret |-> None,
              files |-> g.files]
        ELSE IF Truthy(g.ret)
        THEN [status |-> "returned", exc |-> "", ret |-> CacheHitReturn(g.ret),
              calls |-> 0, gets |-> 1, sets |-> 0, api |-> "none", api_ret |-> None,
              files |-> g.files]
        ELSE IF r.status = "raised"
        THEN [status |-> "raised", exc |-> r.exc, ret |-> None, calls |-> r.calls,
              gets |-> 1, sets |-> 0, api |-> "raised", api_ret |-> None,
              files |-> g.files]
        ELSE IF w.status = "raised"
        THEN [status |-> "raised", exc |-> w.exc, ret |-> None, calls |-> r.calls,
              gets |-> 1, sets |-> 1, api |-> "returned", api_ret |-> r.ret,
              files |-> w.files]
        ELSE [status |-> "returned", exc |-> "", ret |-> r.ret, calls |-> r.calls,
              gets |-> 1, sets |-> 1, api |-> "returned", api_ret |-> r.ret,
              files |-> w.files]

InitStorage ==
    /\ CacheIdle
    /\ ENABLE_CACHING = TRUE
    /\ MAX_RETRIES = MaxInvokeRetries
    /\ PARALLEL_EXECUTION = FALSE
    /\ InvokerIdle
    /\ LedgerIdle /\ ThreadsIdle /\ PipelineIdle

DoInvokeIO(name, prompt, context, outs, rfault, wfault) ==
    \E r \in {InvokeIO(files, now, MAX_RETRIES, name, prompt, context, outs,
                       rfault, wfault)} :
        /\ files' = r.files
        /\ invRes' = [op |-> "invoke_io", name |-> name, rfault |-> rfault,
                      wfault |-> wfault,
                      had_file |-> _get_cache_key(<<>>, Kwargs(InvokeOrder, name, prompt,
                                                              context)) \in DOMAIN files,
                      entry |-> FreshEntry(files, now, name, prompt, context),
                      status |-> r.status, exc |-> r.exc, ret |-> r.ret,
                      calls |-> r.calls, gets |-> r.gets, sets |-> r.sets,
                      api |-> r.api, api_ret |-> r.api_ret]
        /\ UNCHANGED <<now, lastOp, written, cfgVars, retryRes, ledgerVars, threadVars, pipeVars>>

NextStorage ==
    \/ \E name \in AgentNames, rfault \in ReadFaults, wfault \in WriteFaults :
          \E outs \in InvokeOutcomeSeqs(name) :
            DoInvokeIO(name, "p1", "c1", outs, rfault, wfault)
    \/ Tick

SpecStorage == InitStorage /\ [][NextStorage]_vars

----------------------------------------------------------------------------
(* SpecMaint: the cache directory under its maintenance commands, with files  *)
(* that a write cut short has left unparsable                                 *)

MaintNames == {"n1", "n2", "n3"}

InitMaint ==
    /\ CacheIdle
    /\ SettingsDefault
    /\ InvokerIdle
    /\ LedgerIdle /\ ThreadsIdle /\ PipelineIdle

\* A set of these key parts is cut short after open has truncated the file.
CorruptFile(a, p, c) ==
    LET k == _get_cache_key(<<>>, Kwargs(InvokeOrder, a, p, c)) IN
    /\ files' = (k :> Corrupted) @@ files
    /\ lastOp' = [op |-> "corrupt", parts |-> <<a, p, c>>, at |-> now]
    /\ UNCHANGED <<now, written, cfgVars, invokerVars, ledgerVars, threadVars, pipeVars>>

\* MultiAgentOrchestrator.clear_cache in a process started with the given
\* ENABLE_CACHING: Cache.clear when the orchestrator has a cache, else 0.
ClearCache(enable) ==
    \E r \in {IF enable THEN CacheClear(files) ELSE [count |-> 0, files |-> files]} :
        /\ ENABLE_CACHING' = enable
        /\ files' = r.files
        /\ lastOp' = [op |-> IF enable THEN "clear" ELSE "clear_without_cache",
                      at |-> now, count |-> r.count, before |-> files]
        /\ UNCHANGED <<now, written, MAX_RETRIES, PARALLEL_EXECUTION, invokerVars,
                       ledgerVars, threadVars, pipeVars>>

NextMaint ==
    \/ \E a \in MaintNames, p \in CachePrompts, c \in CacheContexts :
            Get(a, p, c, InvokeOrder)
    \/ \E a \in MaintNames, p \in CachePrompts, c \in CacheContexts :
            Set(KeyValue, a, p, c, InvokeOrder)
    \/ \E a \in MaintNames, p \in CachePrompts, c \in CacheContexts :
            CorruptFile(a, p, c)
    \/ ClearExpired
    \/ \E enable \in BOOLEAN : ClearCache(enable)
    \/ Tick

SpecMaint == InitMaint /\ [][NextMaint]_vars

----------------------------------------------------------------------------
(* SpecDamage: the Cache API over a directory whose files have been edited or *)
(* cut short from outside                                                     *)

\* The documents a damaged file can hold: no JSON, no timestamp, a timestamp
\* that is no ISO text, no value.
DamagedDocs(t) ==
    {Corrupted,
     [value |-> KeyValue],
     [timestamp |-> MalformedIso, value |-> KeyValue],
     [timestamp |-> IsoFormat(t)]}

InitDamage ==
    /\ CacheIdle
    /\ SettingsDefault
    /\ InvokerIdle
    /\ LedgerIdle /\ ThreadsIdle /\ PipelineIdle

\* The file of these key parts is replaced by a damaged document.
DamageFile(a, p, c, doc) ==
    LET k == _get_cache_key(<<>>, Kwargs(InvokeOrder, a, p, c)) IN
    /\ files' = (k :> doc) @@ files
    /\ lastOp' = [op |-> "damage", parts |-> <<a, p, c>>, at |-> now, doc |-> doc]
    /\ UNCHANGED <<now, written, cfgVars, invokerVars, ledgerVars, threadVars, pipeVars>>

NextDamage ==
    \/ \E a \in CacheNames, p \in CachePrompts, c \in CacheContexts :
            Get(a, p, c, InvokeOrder)
    \/ \E a \in CacheNames, p \in CachePrompts, c \in CacheContexts :
            Set(KeyValue, a, p, c, InvokeOrder)
    \/ \E a \in CacheNames, p \in CachePrompts, c \in CacheContexts :
          \E doc \in DamagedDocs(now) : DamageFile(a, p, c, doc)
    \/ ClearExpired
    \/ \E enable \in BOOLEAN : ClearCache(enable)
    \/ Tick

SpecDamage == InitDamage /\ [][NextDamage]_vars

----------------------------------------------------------------------------
(* SpecLocate: phase 1 against a locator that answers with any JSON document  *)

\* The answers of the service to the locator: an array for any list of
\* companies, an object, or a text that holds no JSON.
WideLeadAnswers == {ArrayText(names) : names \in CompanyLists} \cup {ObjectText(1, 0), Garbage}

NextLocate ==
    \/ \E cs \in Requests, enable \in BOOLEAN, max_retries \in InvokeRetryCfgs,
          parallel \in BOOLEAN :
            StartRun(cs, enable, max_retries, parallel)
    \/ \E outs \in ServiceRuns(WideLeadAnswers) : Phase1(outs)
    \/ Wait

SpecLocate == InitPipeline /\ [][NextLocate]_vars

----------------------------------------------------------------------------
(* Properties *)

\* C1: when caching is enabled, the agent has a cache and a non-expired entry
\* exists for (caller, prompt, context), invoke with use_cache = true returns
\* (the entry's text, 0, 0) and makes no external call.
C1_CacheHitNoCall ==
    (/\ invRes.op = "invoke"
     /\ invRes.use_cache /\ invRes.has_cache /\ ENABLE_CACHING
     /\ invRes.entry # None)
    => /\ invRes.status = "returned"
       /\ invRes.ret = Value(invRes.entry.text, 0, 0)
       /\ invRes.calls = 0

C1_Witness ==
    /\ invRes.op = "invoke"
    /\ invRes.use_cache /\ invRes.has_cache /\ ENABLE_CACHING
    /\ invRes.entry # None
    /\ invRes.ret = Value(invRes.entry.text, 0, 0)
    /\ invRes.calls = 0

\* C2: with n >= 1 attempts allowed and every call rate limited, the retry loop
\* makes exactly n calls, sleeps RETRY_DELAY*1, ..., RETRY_DELAY*(n-1) in that
\* order and nothing after the last attempt, and raises the rate-limit error.
C2_RetryExhaustion ==
    (/\ retryRes.op = "retry"
     /\ retryRes.n >= 1
     /\ \A i \in 1..retryRes.n : retryRes.outs[i].kind = "rate")
    => /\ retryRes.res.calls = retryRes.n
       /\ retryRes.res.sleeps = [i \in 1..(retryRes.n - 1) |-> RETRY_DELAY * i]
       /\ retryRes.res.status = "raised"
       /\ retryRes.res.exc = "RateLimitError"

C2_Witness ==
    /\ retryRes.op = "retry"
    /\ retryRes.n = DEFAULT_MAX_RETRIES
    /\ \A i \in 1..retryRes.n : retryRes.outs[i].kind = "rate"
    /\ retryRes.res.calls = DEFAULT_MAX_RETRIES
    /\ Len(retryRes.res.sleeps) = DEFAULT_MAX_RETRIES - 1
    /\ retryRes.res.status = "raised"

\* C3: a failure other than the rate-limit class on attempt k (after k-1 rate
\* limited attempts) ends the loop: k calls, the k-1 sleeps that came before
\* it and none after, and that failure raised to the caller.
C3_TerminalNoRetry ==
    retryRes.op = "retry" =>
        \A k \in 1..retryRes.n :
            (/\ \A i \in 1..(k - 1) : retryRes.outs[i].kind = "rate"
             /\ retryRes.outs[k].kind = "err")
            => /\ retryRes.res.calls = k
               /\ Len(retryRes.res.sleeps) = k - 1
               /\ retryRes.res.status = "raised"
               /\ retryRes.res.exc = "Exception"

C3_Witness ==
    /\ retryRes.op = "retry"
    /\ retryRes.n >= 2
    /\ retryRes.outs[1].kind = "err"
    /\ retryRes.res.calls = 1
    /\ retryRes.res.sleeps = <<>>
    /\ retryRes.res.exc = "Exception"

\* C7: a get for key parts that were set returns the value of the last set
\* while now - createdAt <= TTL, and None once now - createdAt > TTL.
C7_RoundTripAndExpiry ==
    (lastOp.op = "get" /\ lastOp.parts \in DOMAIN written)
    => LET w == written[lastOp.parts] IN
       lastOp.ret = IF lastOp.at - w.at <= TtlHours THEN w.value ELSE None

\* A lookup exactly TTL after the set, still answered with the value.
C7_Witness ==
    /\ lastOp.op = "get"
    /\ lastOp.parts \in DOMAIN written
    /\ lastOp.at - written[lastOp.parts].at = TtlHours
    /\ lastOp.ret = written[lastOp.parts].value

\* C10: the cache key of (caller, prompt, context) is the same for every order
\* of the keyword arguments and at every time: a value stored with one order
\* is found by a lookup that uses another, and the directory holds one file
\* per key parts.
C10_KeyOrderIndependent ==
    /\ \A parts \in DOMAIN written, o \in KwOrders :
            _get_cache_key(<<>>, Kwargs(o, parts[1], parts[2], parts[3]))
              = _get_cache_key(<<>>, Kwargs(written[parts].order,
                                            parts[1], parts[2], parts[3]))
    /\ Cardinality(DOMAIN files) <= Cardinality(DOMAIN written)
    /\ (/\ lastOp.op = "get"
        /\ lastOp.reordered
        /\ lastOp.at - written[lastOp.parts].at <= TtlHours)
       => lastOp.ret = written[lastOp.parts].value

C10_Witness ==
    /\ lastOp.op = "get"
    /\ lastOp.reordered
    /\ lastOp.at > written[lastOp.parts].at
    /\ lastOp.ret = written[lastOp.parts].value

\* The input and output tokens tracked for an agent, summed over the history.
RECURSIVE SumTracked(_, _, _)
SumTracked(calls, agents, pos) ==
    IF calls = <<>> THEN 0
    ELSE (IF Head(calls)[1] \in agents THEN Head(calls)[pos] ELSE 0)
         + SumTracked(Tail(calls), agents, pos)

TrackedAgents == {tracked[k][1] : k \in DOMAIN tracked}

UsageOf(agents) ==
    [input_tokens  |-> SumTracked(tracked, agents, 2),
     output_tokens |-> SumTracked(tracked, agents, 3),
     total_tokens  |-> SumTracked(tracked, agents, 2) + SumTracked(tracked, agents, 3)]

C8_Sums ==
    /\ DOMAIN usage_by_agent = TrackedAgents
    /\ \A a \in DOMAIN usage_by_agent : usage_by_agent[a] = UsageOf({a})
    /\ total_usage = UsageOf(TrackedAgents)

C8_NoDecrease ==
    /\ \A a \in DOMAIN usage_by_agent :
          /\ a \in DOMAIN usage_by_agent'
          /\ usage_by_agent'[a].input_tokens  >= usage_by_agent[a].input_tokens
          /\ usage_by_agent'[a].output_tokens >= usage_by_agent[a].output_tokens
          /\ usage_by_agent'[a].total_tokens  >= usage_by_agent[a].total_tokens
    /\ \A a \in (DOMAIN usage_by_agent') \ (DOMAIN usage_by_agent) :
          \E k \in DOMAIN tracked' :
              usage_by_agent'[a] = TokenUsageAdd(TokenUsage, tracked'[k][2], tracked'[k][3])
    /\ total_usage'.input_tokens  >= total_usage.input_tokens
    /\ total_usage'.output_tokens >= total_usage.output_tokens
    /\ total_usage'.total_tokens  >= total_usage.total_tokens

\* C8: after any sequence of track calls every agent's record holds the sums of
\* the inputs and of the outputs tracked for it and their total, the global
\* record is the sum of the agents' records, a record appears with the agent's
\* first track holding that call's amounts alone, and no counter decreases.
C8_UsageAccumulation == []C8_Sums /\ [][C8_NoDecrease]_vars

\* Two calls for one agent and one for another, as in (A, 100, 50), (A, 10, 5).
C8_Witness ==
    /\ Len(tracked) = 3
    /\ tracked[1][1] = tracked[2][1]
    /\ tracked[3][1] # tracked[1][1]
    /\ usage_by_agent[tracked[1][1]].total_tokens
         = tracked[1][2] + tracked[1][3] + tracked[2][2] + tracked[2][3]
    /\ total_usage.total_tokens > usage_by_agent[tracked[1][1]].total_tokens

RECURSIVE SumIncrements(_, _)
SumIncrements(S, fld) ==
    IF S = {} THEN 0
    ELSE LET i == CHOOSE x \in S : TRUE IN
         Increment(targs[i], fld) + SumIncrements(S \ {i}, fld)

\* C9: when threads have run track at the same time for distinct agents, the
\* global record holds the sum of all their increments and each agent's
\* record holds its own.
C9_NoLostUpdate ==
    (tpc # EmptyMap /\ \A i \in DOMAIN tpc : Program[tpc[i]].op = "done")
    => /\ \A i \in DOMAIN tpc :
              usage_by_agent[ThreadAgent(i)] = TokenUsageAdd(TokenUsage, targs[i][1], targs[i][2])
       /\ \A fld \in {"input_tokens", "output_tokens", "total_tokens"} :
              total_usage[fld] = SumIncrements(DOMAIN tpc, fld)

\* The last run of invoke was a phase-2 worker's and ended in an exception.
WorkerFailed ==
    /\ invRes.op = "invoke"
    /\ invRes.status = "raised"
    /\ \E c \in Range(companies) : invRes.name = AnalystName(c)

\* C4: a phase-2 worker that fails terminally does not stop the run: the list
\* of analyses gets an entry for its company, and the run goes on to the next
\* worker or to phase 3.
C4_FanOutIsolation ==
    WorkerFailed =>
        /\ pc \in {"phase2", "phase3"}
        /\ \E k \in DOMAIN analyses : AnalystName(analyses[k].company) = invRes.name

\* The events of a run that went through all its phases over n descriptors.
FullTrace(n) == <<"phase1">> \o [i \in 1..n |-> "phase2"] \o <<"phase3", "save">>

\* C5: the phases run strictly one after the other: phase 1 has returned before
\* any phase-2 worker acts, every descriptor's worker has returned before the
\* synthesis call, the report is written after the synthesis, and a run that
\* completes has run each phase once, none skipped.
C5_PhaseOrder ==
    /\ \E n \in 0..Len(FullTrace(Len(document_locations))) :
            trace = SubSeq(FullTrace(Len(document_locations)), 1, n)
    /\ (invRes.op = "invoke" /\ invRes.name # LeadName) =>
            (Len(trace) >= 1 /\ trace[1] = "phase1")
    /\ (invRes.op = "invoke" /\ invRes.name = SynthesisName) =>
            /\ Len(analyses) = Len(document_locations)
            /\ Len(trace) >= Len(document_locations) + 1
    /\ pc = "done" => (trace = FullTrace(Len(document_locations)) /\ report # None)
    /\ report # None => pc = "done"

C5_Witness ==
    /\ pc = "done"
    /\ Len(document_locations) = MaxCompanies
    /\ trace = FullTrace(MaxCompanies)

\* The last run of invoke was the synthesis of phase 3.
SynthesisInvoked == invRes.op = "invoke" /\ invRes.name = SynthesisName

\* Phase 3 does not touch the cache: no lookup, no write, the directory as it was.
SynthesisBypassesCache ==
    SynthesisInvoked =>
        /\ invRes.use_cache = FALSE
        /\ invRes.gets = 0
        /\ invRes.sets = 0
        /\ invRes.same_files

\* C6 as stated: phase 3 bypasses the cache, and every phase-3 invocation makes
\* at least one external call.
C6_SynthesisAlwaysCalls ==
    /\ SynthesisBypassesCache
    /\ SynthesisInvoked => invRes.calls >= 1

\* C6: phase 3 bypasses the cache (no lookup, no write, the set of entries the
\* same before and after), and a phase-3 invocation makes at least one external
\* call whenever the configured maximum attempt count is at least 1; with a
\* count of 0 or less it makes none and ends in an exception.
C6_SynthesisBypass ==
    /\ SynthesisBypassesCache
    /\ (SynthesisInvoked /\ MAX_RETRIES >= 1) => invRes.calls >= 1
    /\ (SynthesisInvoked /\ MAX_RETRIES <= 0) =>
            (invRes.calls = 0 /\ invRes.status = "raised")

C6_Witness ==
    /\ SynthesisInvoked
    /\ ENABLE_CACHING
    /\ files # EmptyMap
    /\ invRes.status = "returned"
    /\ invRes.calls >= 1
    /\ runs = MaxRuns

\* A turn of the phase-2 loop has run to its end in this step.
WorkerReturned == Len(analyses') = Len(analyses) + 1

\* The ledger record of an agent, zero when the agent has none yet.
RecordOf(uba, agent_name) ==
    IF agent_name \in DOMAIN uba THEN uba[agent_name] ELSE TokenUsage

\* C11: a phase-2 worker that finds the cache entry of an earlier processing of
\* its descriptor, within the TTL, makes 0 external calls and adds 0 input and
\* 0 output tokens to every ledger record and to the global total; a worker
\* that finds none makes at least one call and the token counts of the call
\* that answered are added to its own record and to the total.
C11_RerunCostsNothing ==
    [][WorkerReturned =>
         IF invRes'.has_cache /\ invRes'.entry # None
         THEN /\ invRes'.calls = 0
              /\ total_usage' = total_usage
              /\ \A a \in DOMAIN usage_by_agent' :
                    usage_by_agent'[a] = RecordOf(usage_by_agent, a)
         ELSE /\ invRes'.calls >= 1
              /\ total_usage' = TokenUsageAdd(total_usage, invRes'.ret.input_tokens,
                                              invRes'.ret.output_tokens)
              /\ \A a \in DOMAIN usage_by_agent' :
                    usage_by_agent'[a] =
                        IF a = invRes'.name
                        THEN TokenUsageAdd(RecordOf(usage_by_agent, a),
                                           invRes'.ret.input_tokens,
                                           invRes'.ret.output_tokens)
                        ELSE RecordOf(usage_by_agent, a)
    ]_vars

\* A second run has gone through phase 2 over MaxCompanies descriptors without
\* a call: every worker's track added 0 and 0.
C11_Witness ==
    /\ runs = 2
    /\ ENABLE_CACHING
    /\ pc = "phase3"
    /\ Len(analyses) = MaxCompanies
    /\ Len(tracked) = MaxCompanies + 1
    /\ invRes.calls = 0
    /\ \A i \in 2..Len(tracked) : tracked[i][2] = 0 /\ tracked[i][3] = 0
    /\ \A c \in Range(companies) : usage_by_agent[AnalystName(c)] = TokenUsage

\* Phase 1 has returned in this step.
LocatorReturned == trace = <<>> /\ trace' = <<"phase1">>

\* C12: when the locator's answer cannot be decoded, phase 1 does not end the
\* run: it returns one default descriptor per requested company, in the order
\* of the request, each carrying its company's name, and the run goes on to
\* phase 2 with them.
C12_LocatorDegrades ==
    [][(LocatorReturned /\ extract_json(invRes'.ret.text) = None) =>
         /\ pc' = "phase2"
         /\ Len(document_locations') = Len(companies)
         /\ \A i \in 1..Len(companies) :
                /\ document_locations'[i].company = companies[i]
                /\ document_locations'[i] = DefaultDescriptor(companies[i])
    ]_vars

\* Phase 2 has analysed the default descriptors of MaxCompanies companies.
C12_Witness ==
    /\ Len(companies) = MaxCompanies
    /\ Len(analyses) = MaxCompanies
    /\ \A i \in 1..MaxCompanies :
            /\ document_locations[i] = DefaultDescriptor(companies[i])
            /\ analyses[i].company = companies[i]

\* The designated error result of a company's analysis.
IsErrorResult(a, company) ==
    /\ a.company = company
    /\ a.gen_ai_mentions = 0
    /\ a.ml_mentions = 0
    /\ a.capex_ai = "Error in analysis"
    /\ a.key_insights = "Analysis failed"

\* The analysis of a company whose answer was decoded: the counts are those of
\* an answer the service gives.
IsAnalysed(a, company) ==
    /\ a.company = company
    /\ \E c \in Range(DEFAULT_COMPANIES) : <<a.gen_ai_mentions, a.ml_mentions>> = MentionsOf(c)
    /\ a.capex_ai # "Error in analysis"

C13_AggregateComplete ==
    pc \in {"phase3", "save", "done"} =>
        /\ Len(analyses) = Len(document_locations)
        /\ \A i \in DOMAIN analyses :
              \/ IsErrorResult(analyses[i], document_locations[i].company)
              \/ IsAnalysed(analyses[i], document_locations[i].company)

C13_ErrorResultIsLocal ==
    (WorkerReturned /\ extract_json(invRes'.ret.text) = None) =>
        /\ SubSeq(analyses', 1, Len(analyses)) = analyses
        /\ IsErrorResult(analyses'[Len(analyses')],
                         document_locations[Len(analyses')].company)
        /\ tracked' = Append(tracked, <<invRes'.name, invRes'.ret.input_tokens,
                                        invRes'.ret.output_tokens>>)
        /\ invRes'.calls = 0 <=> invRes'.ret.input_tokens + invRes'.ret.output_tokens = 0
        /\ pc' \in {"phase2", "phase3"}

\* C13: a phase-2 worker whose answer cannot be decoded returns the error
\* result (zero counts, error text) for its own company only, with the token
\* counts its invocation consumed, and the run goes on: when phase 2 is over
\* the list of analyses holds one entry per descriptor, every other company
\* analysed from the answer its worker got.
C13_DecodeFailureLocal == []C13_AggregateComplete /\ [][C13_ErrorResultIsLocal]_vars

C13_Witness ==
    /\ pc = "done"
    /\ Len(analyses) = MaxCompanies
    /\ IsErrorResult(analyses[1], companies[1])
    /\ \A i \in 2..MaxCompanies : IsAnalysed(analyses[i], companies[i])
    /\ tracked[2] = <<AnalystName(companies[1]), 2, 1>>

\* C14: when the cache write that follows a successful external call fails
\* with a storage error, invoke still returns the text and token counts of
\* that call; the failure does not leave invoke.
C14_BestEffortWrite ==
    (invRes.op = "invoke_io" /\ invRes.api = "returned" /\ invRes.wfault # "none") =>
        /\ invRes.status = "returned"
        /\ invRes.ret = invRes.api_ret
        /\ invRes.sets = 1

\* C15: a storage error while get reads an entry (open or read fails, the
\* entry has gone since the existence check, the unlink of an expired entry
\* fails) makes the lookup a miss: nothing is raised to the caller of invoke
\* by the lookup, and invoke goes on to the external call.
C15_FailOpenRead ==
    (invRes.op = "invoke_io" /\ invRes.had_file /\ invRes.rfault # "none") =>
        /\ invRes.exc \notin {"OSError", "FileNotFoundError"}
        /\ invRes.api # "none" \/ invRes.status = "returned"
        /\ (invRes.rfault \in {"open", "vanished", "decode"}) => invRes.calls >= 1

\* The run ended because the invoke of phase 1 or of phase 3 raised.
LocatorOrSynthesisFailed ==
    /\ pc = "failed"
    /\ invRes.op = "invoke"
    /\ invRes.status = "raised"
    /\ invRes.name \in {LeadName, SynthesisName}

\* C16: main returns 0 exactly when the run completes (the report saved after
\* all phases), 1 when the configuration is invalid or an exception leaves the
\* run, 130 when the user interrupts it; and when it returns non-zero because
\* phase 1 or phase 3 failed, no report has been saved.
C16_ExitCodes ==
    /\ exit_code = {0} <=> pc = "done"
    /\ pc = "done" => (report # None /\ trace = FullTrace(Len(document_locations)))
    /\ exit_code = {1} <=> pc = "failed"
    /\ pc = "failed" => (invRes = NoOp /\ trace = <<>>) \/ invRes.status = "raised"
    /\ exit_code = {130} <=> pc = "interrupted"
    /\ exit_code = {} <=> pc \notin {"done", "failed", "interrupted"}
    /\ LocatorOrSynthesisFailed => (exit_code = {1} /\ report = None)

C16_Witness ==
    /\ LocatorOrSynthesisFailed
    /\ invRes.name = SynthesisName
    /\ Len(analyses) = MaxCompanies
    /\ exit_code = {1}
    /\ report = None

\* The analyzer workers whose invocation has begun, seen between two turns of
\* the phase-2 loop: the agent of a descriptor is built and invoked inside its
\* own turn.
WorkersStarted == Len(analyses)

\* C17: PARALLEL_EXECUTION selects the schedule of phase 2: off, a worker
\* starts only when the one before it has returned; on, all workers are
\* started before the first completion is collected.
C17_FlagSelectsSchedule ==
    (pc = "phase2" /\ Len(analyses) >= 1) =>
        IF PARALLEL_EXECUTION
        THEN WorkersStarted = Len(document_locations)
        ELSE WorkersStarted < Len(document_locations)

\* The first k calls raise RateLimitError and call k+1 succeeds.
RateLimitedThenOk(outs, k) ==
    /\ \A i \in 1..k : outs[i].kind = "rate"
    /\ outs[k + 1].kind = "ok"

\* C18: with n >= 1 attempts allowed and k < n, k rate-limit failures followed
\* by a success make exactly k+1 calls, with sleeps RETRY_DELAY*1 ..
\* RETRY_DELAY*k between them, and return the text and token counts of call
\* k+1; whatever the service does, the loop ends returned or raised after at
\* most n calls, each call after the first coming after its own sleep.
C18_RetryStateMachine ==
    retryRes.op = "retry" =>
        LET n    == retryRes.n
            outs == retryRes.outs
            res  == retryRes.res
        IN  /\ \A k \in 0..(n - 1) :
                  RateLimitedThenOk(outs, k) =>
                      /\ res.status = "returned"
                      /\ res.calls = k + 1
                      /\ res.sleeps = [i \in 1..k |-> RETRY_DELAY * i]
                      /\ res.ret = Value(outs[k + 1].text, outs[k + 1].input_tokens,
                                         outs[k + 1].output_tokens)
            /\ res.status \in {"returned", "raised"}
            /\ res.calls <= (IF n > 0 THEN n ELSE 0)
            /\ res.calls >= 1 => Len(res.sleeps) = res.calls - 1
            /\ res.calls = 0 => res.sleeps = <<>>

C18_Witness ==
    /\ retryRes.op = "retry"
    /\ retryRes.n = MaxRetriesCfg
    /\ RateLimitedThenOk(retryRes.outs, MaxRetriesCfg - 1)
    /\ retryRes.res.status = "returned"
    /\ retryRes.res.calls = MaxRetriesCfg

\* The key invoke's keyword order gives the key parts of a call.
KeyOf(parts) == _get_cache_key(<<>>, Kwargs(InvokeOrder, parts[1], parts[2], parts[3]))

\* The entries of a directory a clock reading finds older than the TTL.
ExpiredKeys(fs, t) == {k \in DOMAIN fs : t - FromIsoFormat(fs[k].timestamp) > TtlHours}

\* This step is a get (a set, a clear_expired) made now.
GetStep == lastOp'.op = "get" /\ lastOp'.at = now /\ now' = now
SetStep == lastOp'.op = "set" /\ lastOp'.at = now /\ now' = now
ClearExpiredStep == lastOp'.op = "clear_expired" /\ lastOp'.at = now /\ now' = now

C19_GetEvicts ==
    GetStep =>
        LET k == KeyOf(lastOp'.parts) IN
        IF k \in ExpiredKeys(files, now)
        THEN /\ lastOp'.ret = None
             /\ DOMAIN files' = DOMAIN files \ {k}
             /\ \A j \in DOMAIN files' : files'[j] = files[j]
             /\ CacheClearExpired(files', now).count
                    = Cardinality(ExpiredKeys(files, now)) - 1
        ELSE files' = files

C19_ClearCountsWhatIsThere ==
    ClearExpiredStep =>
        /\ lastOp'.count = Cardinality(ExpiredKeys(files, now))
        /\ DOMAIN files' = DOMAIN files \ ExpiredKeys(files, now)
        /\ \A j \in DOMAIN files' : files'[j] = files[j]

\* C19: a get that finds an entry older than the TTL removes it from the
\* directory and returns None, leaves every other entry as it was, and a
\* clear_expired that follows counts the expired entries still in the
\* directory, the evicted one not among them.
C19_LazyEviction == [][C19_GetEvicts /\ C19_ClearCountsWhatIsThere]_vars

\* A get has just evicted an expired entry while another entry stays.
C19_Witness ==
    /\ lastOp.op = "get"
    /\ lastOp.at = now
    /\ lastOp.before # None
    /\ now - FromIsoFormat(lastOp.before.timestamp) > TtlHours
    /\ lastOp.ret = None
    /\ KeyOf(lastOp.parts) \notin DOMAIN files
    /\ files # EmptyMap

\* C20: a set for a key that has an entry replaces it: afterwards the
\* directory holds one entry for the key, with the new value and the time of
\* this set, so that a get returns the new value from now until the TTL has
\* passed; the entries of the other keys are unchanged.
C20_SetOverwrites ==
    [][SetStep =>
         LET k == KeyOf(lastOp'.parts)
             v == written'[lastOp'.parts].value
         IN  /\ DOMAIN files' = DOMAIN files \cup {k}
             /\ files'[k].value = v
             /\ FromIsoFormat(files'[k].timestamp) = now
             /\ \A j \in DOMAIN files \ {k} : files'[j] = files[j]
             /\ \A t \in now..(now + TtlHours) :
                    CacheGet(files', t, <<>>,
                             Kwargs(InvokeOrder, lastOp'.parts[1], lastOp'.parts[2],
                                    lastOp'.parts[3])).ret = v
    ]_vars

\* A set has just replaced an expired entry of another value, and another
\* key's entry is in the directory.
C20_Witness ==
    /\ lastOp.op = "set"
    /\ lastOp.at = now
    /\ lastOp.before # None
    /\ now - FromIsoFormat(lastOp.before.timestamp) > TtlHours
    /\ lastOp.before.value # files[KeyOf(lastOp.parts)].value
    /\ FromIsoFormat(files[KeyOf(lastOp.parts)].timestamp) = now
    /\ Cardinality(DOMAIN files) = 2

\* The key parts the maintenance commands are exercised with.
MaintParts == MaintNames \X CachePrompts \X CacheContexts

\* What a get of these key parts returns from a directory at the present time.
GetFrom(fs, parts) ==
    CacheGet(fs, now, <<>>, Kwargs(InvokeOrder, parts[1], parts[2], parts[3])).ret

\* The entries clear_expired has to remove: unparsable, or older than the TTL.
Removable(fs, t) ==
    {k \in DOMAIN fs :
        \/ fs[k] = Corrupted
        \/ (fs[k] # Corrupted /\ t - FromIsoFormat(fs[k].timestamp) > TtlHours)}

ClearStep == lastOp'.op = "clear" /\ lastOp'.at = now /\ now' = now

PhaseTwoComplete == pc \in {"phase3", "save", "done"}

C23_OneResultPerDescriptor ==
    /\ Len(analyses) <= Len(document_locations)
    /\ \A i \in DOMAIN analyses : analyses[i].company = document_locations[i].company
    /\ Len(tracked) >= 1 =>
            /\ Len(tracked) >= 1 + Len(analyses)
            /\ \A i \in DOMAIN analyses :
                    tracked[i + 1][1] = AnalystName(document_locations[i].company)
    /\ PhaseTwoComplete =>
            /\ Len(analyses) = Len(document_locations)
            /\ Cardinality({i \in DOMAIN trace : trace[i] = "phase2"})
                    = Len(document_locations)

C23_OneWorkerPerTurn ==
    WorkerReturned =>
        /\ invRes'.name = AnalystName(document_locations[Len(analyses) + 1].company)
        /\ SubSeq(analyses', 1, Len(analyses)) = analyses
        /\ document_locations' = document_locations

\* C23: when phase 2 completes, the list of analyses has as many entries as
\* there are descriptors, its i-th entry is the result for the i-th
\* descriptor's company, and each descriptor was given to one worker, once, in
\* the order of the list.
C23_Aggregation == []C23_OneResultPerDescriptor /\ [][C23_OneWorkerPerTurn]_vars

C23_Witness ==
    /\ pc = "phase3"
    /\ Len(document_locations) = MaxCompanies
    /\ Len(analyses) = MaxCompanies
    /\ \A i \in 1..MaxCompanies :
            /\ analyses[i].company = companies[i]
            /\ tracked[i + 1][1] = AnalystName(companies[i])

\* C24: phase 1 returns one descriptor for each requested company, in the order
\* of the request, whatever JSON document the locator's answer holds.
C24_OneDescriptorPerRequest ==
    (Len(trace) >= 1 /\ trace[1] = "phase1") =>
        /\ Len(document_locations) = Len(companies)
        /\ \A i \in 1..Len(companies) :
                /\ "company" \in DOMAIN document_locations[i]
                /\ document_locations[i].company = companies[i]

\* The positions of the phase-2 list, in the order the synthesis data has them:
\* a bijection p with sorted[i] = as[p[i]].
IsStablePermutation(sorted, as) ==
    /\ Len(sorted) = Len(as)
    /\ \E p \in [1..Len(as) -> 1..Len(as)] :
          /\ \A i, j \in 1..Len(as) : p[i] = p[j] => i = j
          /\ \A i \in 1..Len(as) : sorted[i] = as[p[i]]
          /\ \A i, j \in 1..Len(as) :
                i < j => \/ TotalMentions(sorted[i]) > TotalMentions(sorted[j])
                         \/ /\ TotalMentions(sorted[i]) = TotalMentions(sorted[j])
                            /\ p[i] < p[j]

C25_SortedForSynthesis ==
    /\ IsStablePermutation(SortByTotalDesc(analyses), analyses)
    /\ SynthesisContext(analyses)
          = "Company Analysis Data: " \o CompanyDataText(SortByTotalDesc(analyses))

C25_AggregateUntouched ==
    (invRes' # invRes /\ invRes'.op = "invoke" /\ invRes'.name = SynthesisName) =>
        analyses' = analyses

\* C25: the list sent to the synthesis call holds the entries of the phase-2
\* list, each once, by non-increasing gen_ai_mentions + ml_mentions, entries
\* with equal sums in their phase-2 order; the orchestrator's own list stays in
\* phase-2 order.
C25_SynthesisOrdering == []C25_SortedForSynthesis /\ [][C25_AggregateUntouched]_vars

\* The synthesis has been called with a list it had to reorder.
C25_Witness ==
    /\ SynthesisInvoked
    /\ Len(analyses) = MaxCompanies
    /\ TotalMentions(analyses[1]) < TotalMentions(analyses[MaxCompanies])
    /\ SortByTotalDesc(analyses) # analyses
    /\ SortByTotalDesc(analyses)[1] = analyses[MaxCompanies]

\* The identities of the stage workers of this run: the names their agents
\* carry, which are also the agent_name of their cache keys.
WorkerIdentities ==
    {LeadName, SynthesisName}
        \cup {AnalystName(document_locations[i].company) : i \in DOMAIN document_locations}

\* C26: after each phase that completes, the ledger holds that phase's token
\* counts under the name of the agent that made the call, and after a
\* completed run it has one record for the locator, one for each analyzer name
\* and one for the synthesizer.
C26_LedgerKeyedByIdentity ==
    /\ DOMAIN usage_by_agent \subseteq WorkerIdentities
    /\ (invRes.op = "invoke" /\ invRes.status = "returned" /\ pc # "interrupted") =>
            (Len(tracked) >= 1 /\ tracked[Len(tracked)][1] = invRes.name)
    /\ pc = "done" => DOMAIN usage_by_agent = WorkerIdentities

\* The invoke just run was not to use the cache: caching is disabled in the
\* settings, or the agent has no cache, or use_cache was False.
Uncached ==
    /\ invRes.op = "invoke"
    /\ ~(invRes.use_cache /\ invRes.has_cache /\ ENABLE_CACHING)

\* Such an invoke neither looks up nor writes, and leaves the directory as it
\* found it.
UncachedLeavesCacheAlone ==
    Uncached => (invRes.gets = 0 /\ invRes.sets = 0 /\ invRes.same_files)

\* C27 as stated: an invoke that is not to use the cache performs neither a
\* lookup nor a write, leaves the cache contents the same, and makes at least
\* one external call.
C27_UncachedAlwaysCalls ==
    /\ UncachedLeavesCacheAlone
    /\ Uncached => invRes.calls >= 1

\* C27: when caching is disabled in the settings, or the agent was built
\* without a cache, or use_cache is False, invoke performs neither a lookup nor
\* a write and the cache contents are the same before and after it; it makes at
\* least one external call whenever the configured maximum attempt count is at
\* least 1, and with a count of 0 or less it makes none and ends in an
\* exception.
C27_UncachedBypass ==
    /\ UncachedLeavesCacheAlone
    /\ (Uncached /\ MAX_RETRIES >= 1) => invRes.calls >= 1
    /\ (Uncached /\ MAX_RETRIES <= 0) =>
            (invRes.calls = 0 /\ invRes.status = "raised")

\* Caching is switched off while the directory holds a fresh entry for the
\* very arguments of the invoke: the entry is not read and the service is
\* called.
C27_Witness ==
    /\ Uncached
    /\ ~ENABLE_CACHING
    /\ invRes.use_cache /\ invRes.has_cache
    /\ invRes.entry # None
    /\ invRes.status = "returned"
    /\ invRes.calls >= 1
    /\ invRes.same_files

\* The invoke just run ended in an exception.
Failed == invRes.op = "invoke" /\ invRes.status = "raised"

\* This step is an invoke that ended in an exception.
FailedStep == invRes'.op = "invoke" /\ invRes'.status = "raised" /\ now' = now

\* The key of the arguments of the invoke just run in this step.
InvokedKey == KeyOf(<<invRes'.name, "p1", "c1">>)

\* C28 as stated: when invoke ends in failure no entry is written and the
\* cache is unchanged.
C28_FailureLeavesCacheUnchanged ==
    Failed => (invRes.sets = 0 /\ invRes.same_files)

\* A failed invoke leaves the directory as it was, except that its lookup has
\* removed the expired entry of its own arguments.
C28_FailureOnlyEvicts ==
    FailedStep =>
        files' = IF invRes'.gets = 1 /\ InvokedKey \in ExpiredKeys(files, now)
                 THEN [k \in DOMAIN files \ {InvokedKey} |-> files[k]]
                 ELSE files

\* After a failed invoke that consulted the cache, and for as long as no other
\* invoke runs, the directory holds no entry for its arguments that a lookup
\* would accept.
C28_StillAMiss ==
    (Failed /\ invRes.gets = 1) =>
        FreshEntry(files, now, invRes.name, "p1", "c1") = None

\* An invoke that consults the cache and finds no entry calls the service.
C28_MissCalls ==
    (invRes.op = "invoke" /\ invRes.gets = 1 /\ invRes.entry = None /\ MAX_RETRIES >= 1) =>
        invRes.calls >= 1

\* C28: a cache entry is created only by a successful invocation: when invoke
\* ends in failure no entry is written, and the cache is unchanged except that
\* an expired entry of those arguments has been evicted by the lookup; after a
\* failed invoke that consulted the cache the next cache-consulting invoke with
\* the same arguments is a miss, and calls the service whenever the configured
\* maximum attempt count is at least 1.
C28_OnlySuccessCreates ==
    /\ [](Failed => invRes.sets = 0)
    /\ [][C28_FailureOnlyEvicts]_vars
    /\ []C28_StillAMiss
    /\ []C28_MissCalls

\* An invoke has failed after its lookup evicted the expired entry of its
\* arguments, while the entry of the other agent stayed.
C28_Witness ==
    /\ Failed
    /\ invRes.gets = 1
    /\ invRes.calls >= 1
    /\ ~invRes.same_files
    /\ files # EmptyMap

\* The ledger holds the usage of phases 1 and 2: the lead's track call and one
\* per descriptor, in order, and a record for each of these names.
LedgerHoldsPhases ==
    /\ Len(tracked) = 1 + Len(document_locations)
    /\ tracked[1][1] = "LeadAgent"
    /\ "LeadAgent" \in DOMAIN usage_by_agent
    /\ \A i \in DOMAIN document_locations :
          /\ tracked[i + 1][1] = AnalystName(document_locations[i].company)
          /\ AnalystName(document_locations[i].company) \in DOMAIN usage_by_agent

\* The directory holds a parsable entry under the key of the lead's call and
\* of each analyst's call of this run.
EntriesPersist ==
    /\ KeyOf(<<LeadName, LeadPrompt(companies), "">>) \in DOMAIN files
    /\ \A i \in DOMAIN document_locations :
          KeyOf(<<AnalystName(document_locations[i].company),
                  AnalystPrompt(document_locations[i].company),
                  AnalystContext(document_locations[i])>>) \in DOMAIN files
    /\ \A k \in DOMAIN files : ~Unparsable(files[k])

\* At a failure in phase 3 after phases 1 and 2 ran with the cache, and for as
\* long as the program is not started again, the ledger holds their usage and
\* their cache entries are in the directory.
C29_FailureKeepsWork ==
    LateFailure =>
        (LedgerHoldsPhases /\ EntriesPersist /\ Len(analyses) = Len(document_locations))

\* A run that repeats such a run within the TTL gets phases 1 and 2 from the
\* cache: their invokes return without an external call, their track calls add
\* nothing, the run cannot end in an exception before phase 3, and the calls it
\* makes are those of phase 3.
C29_RerunFromCache ==
    (recovering /\ invRes.op = "invoke") =>
        /\ invRes.name # SynthesisName =>
              (invRes.calls = 0 /\ invRes.status = "returned" /\ invRes.entry # None)
        /\ invRes.name = SynthesisName =>
              /\ invRes.gets = 0
              /\ MAX_RETRIES >= 1 => invRes.calls >= 1
              /\ Len(analyses) = Len(document_locations)
        /\ \A i \in DOMAIN tracked :
              tracked[i][1] # SynthesisName => (tracked[i][2] = 0 /\ tracked[i][3] = 0)
        /\ pc = "failed" => invRes.name = SynthesisName

\* C29: if a run completes phases 1 and 2 with caching enabled and then fails
\* in phase 3, the ledger already holds the phase-1 and phase-2 usage and the
\* phase-1 and phase-2 cache entries persist; re-running with the same
\* companies within the TTL makes no external call in phases 1 and 2 and
\* exactly the calls of phase 3.
C29_LateFailureRecovery ==
    /\ C29_FailureKeepsWork
    /\ C29_RerunFromCache

\* The second run repeats a run over MaxCompanies companies that failed in
\* phase 3, some time later, and has ended with a report: the only usage of
\* its ledger is the synthesizer's.
C29_Witness ==
    /\ recovering
    /\ pc = "done"
    /\ now >= 1
    /\ Len(analyses) = MaxCompanies
    /\ Len(tracked) = MaxCompanies + 2
    /\ total_usage = usage_by_agent[SynthesisName]
    /\ total_usage.total_tokens > 0

\* This step is the invoke of phase 1 or of a turn of phase 2, run to its end
\* or to an exception.
StageInvokeStep ==
    /\ pc \in {"phase1", "phase2"}
    /\ pc' # "interrupted"
    /\ trace' # trace \/ pc' = "failed"

\* The cache key of the invoke a stage worker makes from this state.
StageKey ==
    IF pc = "phase1"
    THEN KeyOf(<<LeadName, LeadPrompt(companies), "">>)
    ELSE LET doc_info == document_locations[Len(analyses) + 1] IN
         KeyOf(<<AnalystName(doc_info.company), AnalystPrompt(doc_info.company),
                 AnalystContext(doc_info)>>)

\* What the stage worker makes of a text that does not decode: the default
\* descriptors of the request, or the error result of its company.
DegradedOutcome ==
    IF pc = "phase1"
    THEN /\ Len(document_locations') = Len(companies)
         /\ \A i \in 1..Len(companies) :
                document_locations'[i] = DefaultDescriptor(companies[i])
    ELSE /\ Len(analyses') = Len(analyses) + 1
         /\ IsErrorResult(analyses'[Len(analyses')],
                          document_locations[Len(analyses')].company)

\* invoke stores the answer of the service whether or not it decodes.
C30_UndecodableStored ==
    (StageInvokeStep /\ invRes'.sets = 1 /\ extract_json(invRes'.ret.text) = None) =>
        /\ StageKey \in DOMAIN files'
        /\ files'[StageKey].value.text = invRes'.ret.text
        /\ now - FromIsoFormat(files'[StageKey].timestamp) <= TtlHours
        /\ DegradedOutcome

\* A call whose entry is in the cache, not older than the TTL, and does not
\* decode returns the stored text without an external call, and the stage
\* worker degrades as it did the first time.
C30_UndecodableHit ==
    (StageInvokeStep /\ invRes'.has_cache /\ invRes'.entry # None
        /\ extract_json(invRes'.entry.text) = None) =>
        /\ invRes'.status = "returned"
        /\ invRes'.calls = 0
        /\ invRes'.sets = 0
        /\ invRes'.ret.text = invRes'.entry.text
        /\ files' = files
        /\ DegradedOutcome

\* C30: an undecodable response is cached like any other: invoke stores the
\* service's text before the stage worker decodes it, so a repeat of a phase-1
\* or phase-2 call within the TTL of an entry whose text does not decode is a
\* cache hit that makes no external call and yields the default descriptors or
\* the error placeholder again.
C30_UndecodableCached ==
    /\ [][C30_UndecodableStored]_vars
    /\ [][C30_UndecodableHit]_vars

\* In a second run, some time after the first, the locator's undecodable
\* answer came from the cache and so did the answer of the analyst that has
\* just returned the error result without a call.
C30_Witness ==
    /\ runs = 2
    /\ now >= 1
    /\ pc \in {"phase2", "phase3"}
    /\ Len(analyses) >= 1
    /\ invRes.op = "invoke"
    /\ invRes.entry # None
    /\ extract_json(invRes.entry.text) = None
    /\ invRes.calls = 0
    /\ tracked[1] = <<"LeadAgent", 0, 0>>
    /\ document_locations[1] = DefaultDescriptor(companies[1])
    /\ IsErrorResult(analyses[Len(analyses)], document_locations[Len(analyses)].company)

\* The maximum attempt count of the run just made: the configured value when
\* max_retries was not passed or was passed as 0, else the value passed.
C31_EffectiveCount ==
    retryRes.op = "retry" =>
        retryRes.n = IF retryRes.arg \in {{}, {0}}
                     THEN MAX_RETRIES
                     ELSE CHOOSE n \in retryRes.arg : TRUE

\* C31: when the effective maximum attempt count is 0 or negative (MAX_RETRIES
\* <= 0 with max_retries absent or 0, or a negative max_retries), the retry
\* procedure makes no external call and no sleep and ends in a runtime error;
\* and whatever the count, a value it returns is the answer of its last
\* external call, which succeeded.
C31_DegenerateCount ==
    /\ C31_EffectiveCount
    /\ (retryRes.op = "retry" /\ retryRes.n <= 0) =>
            /\ retryRes.res.calls = 0
            /\ retryRes.res.sleeps = <<>>
            /\ retryRes.res.status = "raised"
            /\ retryRes.res.exc = "RuntimeError"
    /\ (retryRes.op = "retry" /\ retryRes.res.status = "returned") =>
            /\ retryRes.res.calls >= 1
            /\ retryRes.outs[retryRes.res.calls].kind = "ok"
            /\ retryRes.res.ret = Value(retryRes.outs[retryRes.res.calls].text,
                                        retryRes.outs[retryRes.res.calls].input_tokens,
                                        retryRes.outs[retryRes.res.calls].output_tokens)

\* max_retries=0 was passed while MAX_RETRIES is 0: the service would have
\* answered the first call, and no call was made.
C31_Witness ==
    /\ retryRes.op = "retry"
    /\ retryRes.arg = {0}
    /\ MAX_RETRIES = 0
    /\ retryRes.outs[1].kind = "ok"
    /\ retryRes.res.calls = 0
    /\ retryRes.res.exc = "RuntimeError"

\* An entry the cache cannot serve: its file does not parse, or lacks a
\* readable timestamp, or lacks a value.
Damaged(cache_data) ==
    \/ cache_data = Corrupted
    \/ "timestamp" \notin DOMAIN cache_data
    \/ cache_data.timestamp = MalformedIso
    \/ "value" \notin DOMAIN cache_data

\* An entry that has a readable timestamp and no value.
ValueLess(cache_data) ==
    /\ cache_data # Corrupted
    /\ "timestamp" \in DOMAIN cache_data
    /\ cache_data.timestamp # MalformedIso
    /\ "value" \notin DOMAIN cache_data

\* The age of an entry with a readable timestamp is over the TTL.
Stale(cache_data, t) == t - FromIsoFormat(cache_data.timestamp) > TtlHours

\* The keys clear_expired has to remove from a directory: the timestamp cannot
\* be read, or it is older than the TTL.
SweptKeys(fs, t) ==
    {k \in DOMAIN fs :
        IF Damaged(fs[k]) /\ ~ValueLess(fs[k]) THEN TRUE ELSE Stale(fs[k], t)}

C32_GetOfDamaged ==
    GetStep =>
        LET k == KeyOf(lastOp'.parts) IN
        (k \in DOMAIN files /\ Damaged(files[k])) =>
            /\ lastOp'.ret = None
            /\ files' = IF ValueLess(files[k]) /\ Stale(files[k], now)
                        THEN [j \in DOMAIN files \ {k} |-> files[j]]
                        ELSE files

\* A damaged entry is removed or replaced only by clear, by a clear_expired
\* that has to remove it, by a write of its own key, or by a get of its own
\* key when it has a timestamp older than the TTL.
C32_DamagedStays ==
    \A k \in DOMAIN files :
        (Damaged(files[k]) /\ (k \notin DOMAIN files' \/ files'[k] # files[k])) =>
            \/ lastOp'.op = "clear"
            \/ lastOp'.op = "clear_expired" /\ k \in SweptKeys(files, now)
            \/ lastOp'.op \in {"set", "damage"} /\ KeyOf(lastOp'.parts) = k
            \/ /\ lastOp'.op = "get" /\ KeyOf(lastOp'.parts) = k
               /\ ValueLess(files[k]) /\ Stale(files[k], now)

\* What the two maintenance commands do with damaged entries.
C32_DamagedCounted ==
    /\ ClearExpiredStep =>
            /\ DOMAIN files' = DOMAIN files \ SweptKeys(files, now)
            /\ lastOp'.count = Cardinality(SweptKeys(files, now))
    /\ ClearStep =>
            /\ files' = EmptyMap
            /\ lastOp'.count = Cardinality(DOMAIN files)

====
